---- MODULE Spec2Model ----
(***************************************************************************)
(* Video detector and repair tool (src/video_detector.py,                  *)
(* src/video_conversion.py).                                               *)
(*                                                                         *)
(* Four specifications share the variables below:                          *)
(*   SpecDetect  the prober, the analyzer and detect_video, applied to     *)
(*               ffprobe outputs drawn from a bounded universe;            *)
(*   SpecFix     VideoDetector.fix_video and cleanup, statement block by   *)
(*               statement block, over the files of one video;             *)
(*   SpecConvert VideoConverter.create_preview and extract_frame over the  *)
(*               files of one video;                                       *)
(*   Spec        VideoDetectorApp: the user's events, the worker threads   *)
(*               and the callbacks they post to the Tk main loop.          *)
(*                                                                         *)
(* Python values that may be None are wrapped: None is <<>> and a value v  *)
(* is <<v>>.  A JSON object or a dict is a function whose DOMAIN is the    *)
(* set of keys present.                                                    *)
(***************************************************************************)
EXTENDS Integers, Sequences, FiniteSets, TLC

VARIABLES
    \* ---- VideoDetector (shared by the three specifications)
    has_ffmpeg,     \* VideoDetector.has_ffmpeg
    has_ffprobe,    \* VideoDetector.has_ffprobe
    \* ---- SpecDetect: one call of detect_video
    probe_data,     \* the JSON ffprobe prints for the file when it succeeds
    probe_runs,     \* outcome of each ffprobe run the call made, in order
    detected,       \* Pending, or Returned(v) for the value v detect_video returned
    found,          \* the wrapped return value of the analyzer, None if not called
    \* ---- SpecFix: fix_video and cleanup on the files of one video
    disk,           \* the file system: path -> content
    temp_files,     \* VideoDetector._temp_files
    fixed_info,     \* the VideoInfo object passed to fix_video (its video_info)
    pc,             \* where the running fix_video call is, "idle" between calls
    call,           \* arguments and local variables of the running call
    fix_result,     \* how the last call ended: [raised, success, message]
    n_calls,        \* fix_video calls made so far
    \* ---- Spec: VideoDetectorApp
    video_info_list,        \* VideoDetectorApp.video_info_list
    selected_video_index,   \* VideoDetectorApp.selected_video_index
    tree,           \* the file name shown in each row of the tree view
    buttons,        \* which of the buttons are in state NORMAL
    workers,        \* the worker threads: thread number -> its locals
    after_queue     \* callbacks posted with master.after(0, ...), oldest first

detectVars == <<probe_data, probe_runs, detected, found>>
fixVars == <<disk, temp_files, fixed_info, pc, call, fix_result, n_calls>>
appVars == <<video_info_list, selected_video_index, tree, buttons, workers,
            after_queue>>
vars == <<has_ffmpeg, has_ffprobe, probe_data, probe_runs, detected, found,
          disk, temp_files, fixed_info, pc, call, fix_result, n_calls,
          video_info_list, selected_video_index, tree, buttons, workers,
          after_queue>>

(***************************************************************************)
(* Python values                                                           *)
(***************************************************************************)
PyNone == <<>>
Py(v) == <<v>>
EmptyDict == [k \in {} |-> PyNone]
\* d.get(k, default), and d.get(k) whose default is None
Get(d, k, default) == IF k \in DOMAIN d THEN d[k] ELSE default
GetOpt(d, k) == IF k \in DOMAIN d THEN Py(d[k]) ELSE PyNone

\* str.lower() and str.upper() on the strings of the universe
Lower_Identity(s) == s

Lower(s) ==
    CASE s = "HEVC" -> "hevc"
      [] s = "H265" -> "h265"
      [] s = "AAC" -> "aac"
      [] OTHER -> s

Upper(s) ==
    CASE s = "hevc" -> "HEVC"
      [] s = "h265" -> "H265"
      [] s = "av1" -> "AV1"
      [] s = "vp9" -> "VP9"
      [] OTHER -> s

(***************************************************************************)
(* VideoInfo                                                               *)
(***************************************************************************)
STATUS_UNKNOWN == "unknown"
STATUS_OK == "ok"
STATUS_ERROR == "error"
STATUS_FIXED == "fixed"
STATUS_PROCESSING == "processing"

\* A path is <<directory, file name>>.
Basename(path) == path[2]

\* VideoInfo.__init__ (filesize, which no operation reads, is left out)
VideoInfo(filepath) ==
    [ filepath |-> filepath,
      filename |-> Basename(filepath),
      status |-> STATUS_UNKNOWN,
      width |-> PyNone,
      height |-> PyNone,
      duration |-> PyNone,
      fps |-> PyNone,
      codec |-> PyNone,
      video_bitrate |-> PyNone,
      audio_codec |-> PyNone,
      audio_bitrate |-> PyNone,
      error_message |-> PyNone,
      fixed_path |-> PyNone,
      fixed_time |-> PyNone,
      conversion_params |-> PyNone,
      pixel_format |-> PyNone,
      color_space |-> PyNone,
      issues |-> <<>> ]

(***************************************************************************)
(* Media prober: VideoDetector._get_video_info                             *)
(***************************************************************************)
\* How one run of ffprobe ends: exit code 0 with the JSON of the file, a
\* non-zero exit code, or exit code 0 with output json.loads rejects.
RunOutcomes == {"ok", "nonzero", "unparsable"}

\* Index of the first stream of the given codec_type, 0 when there is none
\* (the loop that keeps the first video and the first audio stream).
FirstStream(streams, type) ==
    LET idx == {i \in 1..Len(streams) : Get(streams[i], "codec_type", "") = type}
    IN IF idx = {} THEN 0 ELSE CHOOSE i \in idx : \A j \in idx : i <= j

\* A string the code takes apart (r_frame_rate, bit_rate) is the sequence
\* of its characters; "" is <<>>.
Chars(s) == {s[i] : i \in 1..Len(s)}
DigitChars == <<"0", "1", "2", "3", "4", "5", "6", "7", "8", "9">>
DigitValue(c) == (CHOOSE i \in 1..Len(DigitChars) : DigitChars[i] = c) - 1

\* The value of a string of decimal digits.
RECURSIVE DigitsValue(_)
DigitsValue(s) ==
    IF s = <<>> THEN 0
    ELSE 10 * DigitsValue(SubSeq(s, 1, Len(s) - 1)) + DigitValue(s[Len(s)])

\* int(s): an optional sign and at least one digit; None stands for the
\* ValueError of any other string.
int(s) ==
    LET signed == s # <<>> /\ s[1] \in {"-", "+"}
        digits == IF signed THEN Tail(s) ELSE s
    IN IF digits = <<>> \/ ~(Chars(digits) \subseteq Chars(DigitChars)) THEN PyNone
       ELSE IF signed /\ s[1] = "-" THEN Py(0 - DigitsValue(digits))
       ELSE Py(DigitsValue(digits))

\* s.split(sep) for a one-character separator
RECURSIVE split(_, _)
split(s, sep) ==
    IF sep \notin Chars(s) THEN <<s>>
    ELSE LET i == CHOOSE i \in 1..Len(s) : s[i] = sep /\ \A j \in 1..(i - 1) : s[j] # sep
         IN <<SubSeq(s, 1, i - 1)>> \o split(SubSeq(s, i + 1, Len(s)), sep)

Abs(x) == IF x < 0 THEN 0 - x ELSE x

\* floor(log2(a / b)) for positive a and b
RECURSIVE Log2Floor(_, _)
Log2Floor(a, b) ==
    IF a < b THEN Log2Floor(2 * a, b) - 1
    ELSE IF a < 2 * b THEN 0
    ELSE Log2Floor(a, 2 * b) + 1

\* 2^k mod f
RECURSIVE Pow2Mod(_, _)
Pow2Mod(k, f) == IF k = 0 THEN 1 % f ELSE (2 * Pow2Mod(k - 1, f)) % f

\* The float a / (8 * f), f being 5 or 25 and no divisor of a, is not the
\* quotient itself but the nearest number with a 53-bit significand:
\* whether that number is the larger of the two.
FloatIsAbove(a, f) ==
    LET exponent == 49 - Log2Floor(a, 8 * f)
        remainder == ((a % f) * Pow2Mod(exponent, f)) % f
    IN 2 * remainder > f

round_Truncating(num, denom) ==
    LET magnitude == (100 * Abs(num)) \div Abs(denom)
    IN IF (num < 0) # (denom < 0) THEN 0 - magnitude ELSE magnitude

\* round(num / denom, 2) for denom # 0, in hundredths.  The float num /
\* denom is rounded to the nearest hundredth; when the quotient is halfway
\* between two hundredths the float decides: to the even one when it is the
\* quotient exactly (a multiple of 1/8), else to the side it lies on.
round(num, denom) ==
    LET n == 100 * Abs(num)
        d == Abs(denom)
        low == n \div d
        halves == 2 * low + 1
        f == IF halves % 25 = 0 THEN 1 ELSE IF halves % 5 = 0 THEN 5 ELSE 25
        up == IF 2 * (n % d) # d THEN 2 * (n % d) > d
              ELSE IF f = 1 THEN low % 2 = 1
              ELSE FloatIsAbove((halves * f) \div 25, f)
        magnitude == IF up THEN low + 1 ELSE low
    IN IF (num < 0) # (denom < 0) THEN 0 - magnitude ELSE magnitude

\* f"{int(bit_rate) / 1000:.0f} kbps": the nearest integer, the even one
\* of two equally near; None when int raises.
Kbps(bit_rate) ==
    LET b == int(bit_rate)
    IN IF b = PyNone THEN PyNone
       ELSE LET low == Abs(b[1]) \div 1000
                rest == Abs(b[1]) % 1000
                magnitude == IF rest > 500 \/ (rest = 500 /\ low % 2 = 1)
                             THEN low + 1 ELSE low
            IN Py(<<IF b[1] < 0 THEN 0 - magnitude ELSE magnitude, "kbps">>)

\* A decimal number m / 10^e without trailing zeros in its fraction.
RECURSIVE Decimal(_, _)
Decimal(m, e) == IF e > 0 /\ m % 10 = 0 THEN Decimal(m \div 10, e - 1) ELSE <<m, e>>

\* float(s) for a string of an optional sign, digits and at most one point
\* among them; None stands for the ValueError of the other strings the
\* universes hold, none of which spells an exponent, inf or nan.
float(s) ==
    LET signed == s # <<>> /\ s[1] \in {"-", "+"}
        parts == split(IF signed THEN Tail(s) ELSE s, ".")
        whole == parts[1]
        fraction == IF Len(parts) = 2 THEN parts[2] ELSE <<>>
        digits == whole \o fraction
    IN IF Len(parts) > 2 \/ digits = <<>> \/ ~(Chars(digits) \subseteq Chars(DigitChars))
       THEN PyNone
       ELSE LET m == DigitsValue(digits)
            IN Py(Decimal(IF signed /\ s[1] = "-" THEN 0 - m ELSE m, Len(fraction)))

\* The frame-rate lines: what they add to the info dict, and whether they
\* raise (split not giving two parts, or int rejecting one).
FpsParts(video_stream) ==
    LET fps_str == Get(video_stream, "r_frame_rate", <<>>)
    IN IF fps_str # <<>> /\ "/" \in Chars(fps_str) THEN split(fps_str, "/") ELSE <<>>
FpsRaises(video_stream) ==
    LET parts == FpsParts(video_stream)
    IN parts # <<>> /\ (Len(parts) # 2 \/ \E i \in 1..Len(parts) : int(parts[i]) = PyNone)
FpsPart(video_stream) ==
    LET parts == FpsParts(video_stream)
    IN IF parts = <<>> \/ FpsRaises(video_stream) THEN EmptyDict
       ELSE LET num == int(parts[1])[1]
                denom == int(parts[2])[1]
            IN IF denom # 0 THEN "fps" :> Py(round(num, denom)) ELSE EmptyDict

\* if "bit_rate" in stream: ... with "except (ValueError, TypeError): pass"
BitratePart(stream, key) ==
    IF "bit_rate" \in DOMAIN stream /\ Kbps(stream["bit_rate"]) # PyNone
    THEN key :> Kbps(stream["bit_rate"]) ELSE EmptyDict

\* The keys the video stream, the audio stream and the format add to the
\* info dict.
VideoPart(video_stream) ==
    ("width" :> Py(Get(video_stream, "width", 0)))
      @@ ("height" :> Py(Get(video_stream, "height", 0)))
      @@ ("codec" :> GetOpt(video_stream, "codec_name"))
      @@ ("pixel_format" :> GetOpt(video_stream, "pix_fmt"))
      @@ ("color_space" :> GetOpt(video_stream, "color_space"))
      @@ FpsPart(video_stream)
      @@ BitratePart(video_stream, "video_bitrate")
AudioPart(audio_stream) ==
    ("audio_codec" :> GetOpt(audio_stream, "codec_name"))
      @@ BitratePart(audio_stream, "audio_bitrate")
FormatPart(format_info) ==
    IF "duration" \in DOMAIN format_info /\ float(format_info["duration"]) # PyNone
    THEN "duration" :> float(format_info["duration"])
    ELSE EmptyDict

\* The info dict built from a parsed ffprobe output.
ParsedInfo(data) ==
    LET streams == Get(data, "streams", <<>>)
        v == FirstStream(streams, "video")
        a == FirstStream(streams, "audio")
    IN (IF v = 0 THEN EmptyDict ELSE VideoPart(streams[v]))
       @@ (IF a = 0 THEN EmptyDict ELSE AudioPart(streams[a]))
       @@ FormatPart(Get(data, "format", EmptyDict))

\* Building the info dict raises: the frame rate of the first video stream
\* does not parse.
ParseRaises(data) ==
    LET streams == Get(data, "streams", <<>>)
        v == FirstStream(streams, "video")
    IN v # 0 /\ FpsRaises(streams[v])

\* _get_video_info: [raised, ret].  raised: the call raised an exception;
\* otherwise ret is the wrapped return value (None without ffprobe).
_get_video_info(ffprobe, run, data) ==
    IF ~ffprobe THEN [raised |-> FALSE, ret |-> PyNone]
    ELSE IF run # "ok" \/ ParseRaises(data) THEN [raised |-> TRUE, ret |-> PyNone]
    ELSE [raised |-> FALSE, ret |-> Py(ParsedInfo(data))]

\* Python truthiness of the value _get_video_info returned: None and the
\* empty dict are both false.
Truthy(ret) == ret # PyNone /\ DOMAIN ret[1] # {}

(***************************************************************************)
(* Compatibility analyzer: VideoDetector._identify_problematic_streams     *)
(***************************************************************************)
BadVideoCodecs == {"hevc", "h265", "av1", "vp9"}
GoodPixelFormats == {"yuv420p", "yuvj420p", "rgb24", "bgr24"}
GoodColorSpaces == {"bt709", "bt601", "bt470bg", "smpte170m"}
GoodAudioCodecs_Two == {"aac", "pcm_s16le"}
GoodAudioCodecs == {"aac", "mp3", "pcm_s16le"}
AmbientViewingEnvironment == "Ambient viewing environment"

\* An issue is the rule that fired and the value its message quotes.
Issue(rule, arg) == [rule |-> rule, arg |-> arg]

\* The issues one iteration of the loop appends for a video stream.
VideoStreamIssues(stream) ==
    LET codec_name == Lower(Get(stream, "codec_name", ""))
        pix_fmt == Lower(Get(stream, "pix_fmt", ""))
        color_space == Lower(Get(stream, "color_space", ""))
        side_data == Get(stream, "side_data_list", <<>>)
        ambient == SelectSeq(side_data,
                     LAMBDA item : Get(item, "side_data_type", "") = AmbientViewingEnvironment)
    IN (IF codec_name \in BadVideoCodecs
        THEN <<Issue("codec", Upper(codec_name))>> ELSE <<>>)
       \o (IF pix_fmt # "" /\ pix_fmt \notin GoodPixelFormats
           THEN <<Issue("pix_fmt", pix_fmt)>> ELSE <<>>)
       \o (IF color_space # "" /\ color_space \notin GoodColorSpaces
           THEN <<Issue("color_space", color_space)>> ELSE <<>>)
       \o [i \in 1..Len(ambient) |-> Issue("side_data", AmbientViewingEnvironment)]

\* The issues one iteration of the loop appends for an audio stream.
AudioStreamIssues(stream) ==
    LET codec_name == Lower(Get(stream, "codec_name", ""))
    IN IF codec_name \notin GoodAudioCodecs
       THEN <<Issue("audio", codec_name)>> ELSE <<>>

\* The loop over data["streams"], from stream i on.
RECURSIVE CheckStreams(_, _, _)
CheckStreams(streams, i, result) ==
    IF i > Len(streams) THEN result
    ELSE LET type == Get(streams[i], "codec_type", "")
             next ==
                IF type = "video"
                THEN [result EXCEPT !.video_issues = @ \o VideoStreamIssues(streams[i])]
                ELSE IF type = "audio"
                THEN [result EXCEPT !.audio_issues = @ \o AudioStreamIssues(streams[i])]
                ELSE result
         IN CheckStreams(streams, i + 1, next)

NoIssues == [video_issues |-> <<>>, audio_issues |-> <<>>]

\* _identify_problematic_streams.  run_info is the outcome of the ffprobe
\* run inside _get_video_info, run_data that of the run with -show_data.
_identify_problematic_streams(ffprobe, run_info, run_data, data) ==
    IF ~ffprobe THEN NoIssues
    ELSE LET video_info == _get_video_info(ffprobe, run_info, data)
         IN IF video_info.raised THEN NoIssues
            ELSE IF ~Truthy(video_info.ret) THEN NoIssues
            ELSE IF run_data # "ok" THEN NoIssues
            ELSE CheckStreams(Get(data, "streams", <<>>), 1, NoIssues)

(***************************************************************************)
(* VideoDetector.detect_video                                              *)
(***************************************************************************)
MSG_COMPAT == "compatibility issues detected"
MSG_NO_INFO == "cannot get video info"
MSG_DETECT_FAILED == "detection failed"
MSG_NO_FFPROBE == "detection tool unavailable"

\* for key, value in video_info.items(): if hasattr(info, key): setattr(...)
CopyInfo(info, video_info) ==
    [k \in DOMAIN info |-> IF k \in DOMAIN video_info THEN video_info[k] ELSE info[k]]

\* The status detect_video sets from the analyzer's lists.
Verdict_VideoOnly(issues) ==
    IF issues.video_issues # <<>> THEN STATUS_ERROR ELSE STATUS_OK

Verdict(issues) ==
    IF issues.video_issues # <<>> \/ issues.audio_issues # <<>>
    THEN STATUS_ERROR ELSE STATUS_OK

\* detect_video: the wrapped VideoInfo it returns, None for a missing file.
\* run1 is the ffprobe run of its own _get_video_info call, run2 and run3
\* the two runs of the analyzer.
detect_video(video_path, exists, ffprobe, run1, run2, run3, data) ==
    IF ~exists THEN PyNone
    ELSE LET info == VideoInfo(video_path)
             failed(msg) == Py([info EXCEPT !.status = STATUS_ERROR,
                                            !.error_message = Py(msg)])
         IN IF ~ffprobe THEN failed(MSG_NO_FFPROBE)
            ELSE LET video_info == _get_video_info(ffprobe, run1, data)
                 IN IF video_info.raised THEN failed(MSG_DETECT_FAILED)
                    ELSE IF ~Truthy(video_info.ret) THEN failed(MSG_NO_INFO)
                    ELSE LET copied == CopyInfo(info, video_info.ret[1])
                             issues == _identify_problematic_streams(ffprobe, run2, run3, data)
                             listed == [copied EXCEPT
                                          !.issues = issues.video_issues \o issues.audio_issues]
                         IN IF Verdict(issues) = STATUS_ERROR
                            THEN Py([listed EXCEPT !.status = STATUS_ERROR,
                                                   !.error_message = Py(MSG_COMPAT)])
                            ELSE Py([listed EXCEPT !.status = STATUS_OK])

(***************************************************************************)
(* SpecDetect: detect_video applied to the ffprobe outputs of a bounded    *)
(* universe of files.                                                      *)
(***************************************************************************)
\* Extra streams a file may carry after its first video and audio stream.
MaxExtraStreams == 1

\* The dict fragments for one optional key: absent, or one of the values.
Field(k, values) == {EmptyDict} \cup {k :> v : v \in values}

SideData(type) == "side_data_type" :> type
MasteringDisplay == "Mastering display metadata"

VideoCodecNames == {"h264", "hevc", "HEVC", "h265", "av1", "vp9"}
PixelFormats == {"yuv420p", "yuv444p"}
ColorSpaces == {"bt709", "bt2020nc"}
SideDataLists ==
    { <<SideData(MasteringDisplay)>>,
      <<SideData(AmbientViewingEnvironment)>>,
      <<SideData(AmbientViewingEnvironment), SideData(AmbientViewingEnvironment)>> }
AudioCodecNames == {"aac", "AAC", "mp3", "pcm_s16le", "opus"}

\* str(n)
RECURSIVE Digits(_)
Digits(n) ==
    IF n < 10 THEN <<DigitChars[n + 1]>>
    ELSE Digits(n \div 10) \o <<DigitChars[(n % 10) + 1]>>
Numeral(n) == IF n < 0 THEN <<"-">> \o Digits(0 - n) ELSE Digits(n)

\* r_frame_rate is printed by ffprobe as "num/den"; 0/0 when unknown.
Numerators == {-30000, 0, 1, 3, 25, 1001, 24000, 30000}
Denominators == {-8, 0, 1, 8, 40, 200, 1001}
RateString(num, den) == Numeral(num) \o <<"/">> \o Numeral(den)
FrameRates == {RateString(num, den) : num \in Numerators, den \in Denominators}
\* bit_rate values: decimal strings, and one int rejects.
BitRates == {Numeral(128000), Numeral(2500500), Numeral(1500), <<"N", "/", "A">>}

\* A video stream that carries nothing but its type.
BareVideoStream == "codec_type" :> "video"

VideoStreams ==
    { ("codec_type" :> "video") @@ ("width" :> 1280) @@ ("height" :> 720)
        @@ c @@ p @@ cs @@ sd :
        c \in Field("codec_name", VideoCodecNames),
        p \in Field("pix_fmt", PixelFormats),
        cs \in Field("color_space", ColorSpaces),
        sd \in Field("side_data_list", SideDataLists) }
    \cup {BareVideoStream}

\* Video streams with a frame rate or a bit rate.
RatedVideoStreams ==
    { ("codec_type" :> "video") @@ ("width" :> 1280) @@ ("height" :> 720)
        @@ ("codec_name" :> "h264") @@ r :
        r \in {"r_frame_rate" :> x : x \in FrameRates}
              \cup {"bit_rate" :> x : x \in BitRates} }

AudioStreams ==
    { ("codec_type" :> "audio") @@ c : c \in Field("codec_name", AudioCodecNames) }

\* Audio streams with a bit rate.
RatedAudioStreams ==
    { ("codec_type" :> "audio") @@ ("codec_name" :> "aac") @@ ("bit_rate" :> x) :
        x \in BitRates }

ExtraStreams ==
    { ("codec_type" :> "video") @@ ("codec_name" :> "hevc")
        @@ ("side_data_list" :> <<SideData(AmbientViewingEnvironment)>>),
      ("codec_type" :> "audio") @@ ("codec_name" :> "opus") }

RECURSIVE SeqsUpTo(_, _)
SeqsUpTo(S, n) ==
    IF n = 0 THEN {<<>>}
    ELSE LET shorter == SeqsUpTo(S, n - 1)
         IN shorter \cup {Append(q, x) : q \in shorter, x \in S}

\* duration values: decimal strings, and one float rejects.
Durations == {<<"1", "2", ".", "5">>, <<"N", "/", "A">>}
\* Video streams with and without a duration of their own.
TimedVideoStreams ==
    { ("codec_type" :> "video") @@ ("width" :> 1280) @@ ("height" :> 720)
        @@ ("codec_name" :> "h264") @@ d :
        d \in Field("duration", {<<"1", "0", ".", "0", "0">>, <<"N", "/", "A">>}) }

\* The parsed outputs of ffprobe: at most one leading video stream, at most
\* one audio stream after it, then the extra streams; the outputs with
\* frame and bit rates; the outputs with durations; the outputs with a
\* subtitle stream.
ProbeOutputs ==
    { ("streams" :> (v \o a \o extra)) @@ ("format" :> f) :
        v \in {<<>>} \cup {<<x>> : x \in VideoStreams},
        a \in {<<>>} \cup {<<x>> : x \in AudioStreams},
        extra \in SeqsUpTo(ExtraStreams, MaxExtraStreams),
        f \in Field("duration", {<<"1", "2", ".", "5">>}) }
    \cup { ("streams" :> (<<v>> \o a)) @@ ("format" :> f) :
             v \in RatedVideoStreams,
             a \in {<<>>} \cup {<<x>> : x \in RatedAudioStreams},
             f \in Field("duration", {<<"1", "2", ".", "5">>}) }
    \cup { ("streams" :> <<v>>) @@ ("format" :> f) :
             v \in TimedVideoStreams, f \in Field("duration", Durations) }
    \cup { ("streams" :> (v \o <<"codec_type" :> "subtitle">> \o a)) @@ ("format" :> EmptyDict) :
             v \in {<<>>, <<BareVideoStream>>},
             a \in {<<>>, <<("codec_type" :> "audio") @@ ("codec_name" :> "aac")>>} }

\* The outcomes of the ffprobe runs of one call, up to the first failing
\* one; no run follows a failing run, and a run not listed succeeds.
RunPlans ==
    { <<r>> : r \in RunOutcomes \ {"ok"} }
    \cup { <<"ok", r>> : r \in RunOutcomes \ {"ok"} }
    \cup { <<"ok", "ok", r>> : r \in RunOutcomes }

Run(plan, i) == IF i <= Len(plan) THEN plan[i] ELSE "ok"

VideoPath == <<"dir", "video.mp4">>

\* detected before the call, and once the call has returned v.
Pending == <<>>
Returned(v) == <<v>>

\* The file-level state of a specification that makes no fix_video call.
FixIdle ==
    /\ disk = <<>>
    /\ temp_files = <<>>
    /\ fixed_info = <<>>
    /\ pc = "idle"
    /\ call = <<>>
    /\ fix_result = <<>>
    /\ n_calls = 0

\* The application state of a specification that runs no VideoDetectorApp.
AppIdle ==
    /\ video_info_list = <<>>
    /\ selected_video_index = -1
    /\ tree = <<>>
    /\ buttons = <<>>
    /\ workers = <<>>
    /\ after_queue = <<>>

InitDetect ==
    /\ has_ffmpeg = TRUE
    /\ has_ffprobe \in BOOLEAN
    /\ probe_data \in ProbeOutputs
    /\ probe_runs = <<>>
    /\ detected = Pending
    /\ found = PyNone
    /\ FixIdle
    /\ AppIdle

\* One call detect_video(VideoPath) of a file that exists.
DetectExisting ==
    /\ detected = Pending
    /\ \E plan \in RunPlans :
        LET info == _get_video_info(has_ffprobe, Run(plan, 1), probe_data)
        IN /\ probe_runs' = plan
           /\ detected' = Returned(detect_video(VideoPath, TRUE, has_ffprobe,
                              Run(plan, 1), Run(plan, 2), Run(plan, 3), probe_data))
           /\ found' = IF has_ffprobe /\ ~info.raised /\ Truthy(info.ret)
                       THEN Py(_identify_problematic_streams(
                                  has_ffprobe, Run(plan, 2), Run(plan, 3), probe_data))
                       ELSE PyNone
    /\ UNCHANGED <<has_ffmpeg, has_ffprobe, probe_data>>
    /\ UNCHANGED fixVars
    /\ UNCHANGED appVars

\* One call detect_video(VideoPath) when no file is at the path.
DetectMissing ==
    /\ detected = Pending
    /\ probe_runs' = <<>>
    /\ detected' = Returned(detect_video(VideoPath, FALSE, has_ffprobe,
                                          "ok", "ok", "ok", probe_data))
    /\ found' = PyNone
    /\ UNCHANGED <<has_ffmpeg, has_ffprobe, probe_data>>
    /\ UNCHANGED fixVars
    /\ UNCHANGED appVars

NextDetect == DetectExisting \/ DetectMissing

SpecDetect == InitDetect /\ [][NextDetect]_vars

(***************************************************************************)
(* SpecFix: VideoDetector.fix_video and VideoDetector.cleanup              *)
(***************************************************************************)
\* fix_video calls made in one behaviour.
MaxCalls == 2

\* original_path + ".bak"
BackupPath == <<"dir", "video.mp4.bak">>
\* name + "_fixed.mp4" for the name part of a file name.
FixedName(basename) ==
    CASE basename = "video.mp4" -> "video_fixed.mp4"
      [] basename = "clip.mp4" -> "clip_fixed.mp4"
      [] OTHER -> basename
\* The application's output path when the original name is not kept.
OutputPathFor(filepath) == <<filepath[1], FixedName(Basename(filepath))>>
SuffixedPath == OutputPathFor(VideoPath)
\* The paths tempfile.mkstemp returns in the k-th call.
TempOutputPath(k) == <<"dir", "temp_fix_", k>>
RawTempPath(k) == <<"dir", "raw_temp_", k>>

Paths ==
    {VideoPath, BackupPath, SuffixedPath}
    \cup {TempOutputPath(k) : k \in 1..MaxCalls}
    \cup {RawTempPath(k) : k \in 1..MaxCalls}

\* What a path holds: nothing, the video as it was, a complete re-encoded
\* video, a zero-byte file, an incomplete encoder output, raw frames.
Exists(path) == disk[path] # "absent"
NonEmpty(path) == disk[path] \notin {"absent", "empty"}

\* list.remove(x) guarded by "if x in list"
RECURSIVE ListRemove(_, _)
ListRemove(list, x) ==
    IF list = <<>> THEN <<>>
    ELSE IF Head(list) = x THEN Tail(list)
    ELSE <<Head(list)>> \o ListRemove(Tail(list), x)

MSG_NO_FFMPEG == "FFmpeg not found"
MSG_ALREADY_OK == "already compatible"
MSG_STAGE1 == "stage 1 decode failed"
MSG_STAGE2 == "stage 2 encode failed"
MSG_EMPTY_OUTPUT == "output file missing or empty"
MSG_REPLACE == "error replacing the original"
MSG_CONVERT_ERROR == "conversion error"
MSG_FIXED == "video fixed"

Result(success, message) == [raised |-> FALSE, success |-> success, message |-> message]
RaisedResult == [raised |-> TRUE, success |-> FALSE, message |-> ""]

\* quality_settings and quality_settings.get(quality, quality_settings['medium'])
Qualities == {"low", "medium", "high", "bogus"}
quality_settings ==
    [ high |-> [preset |-> "slow", crf |-> "18"],
      medium |-> [preset |-> "medium", crf |-> "23"],
      low |-> [preset |-> "ultrafast", crf |-> "28"] ]
Settings_DefaultHigh(quality) == Get(quality_settings, quality, quality_settings["high"])

Settings(quality) == Get(quality_settings, quality, quality_settings["medium"])

\* The ffprobe outputs of the originals fix_video probes: a video stream
\* with its size and frame rate, a video stream without them, and a file
\* with an audio stream only.
FixProbeOutputs ==
    { "streams" :> << ("codec_type" :> "video") @@ ("codec_name" :> "hevc")
                       @@ ("width" :> 1280) @@ ("height" :> 720)
                       @@ ("r_frame_rate" :> RateString(25, 1)) >>,
      "streams" :> <<BareVideoStream>>,
      "streams" :> << ("codec_type" :> "audio") @@ ("codec_name" :> "opus") >> }

\* orig_info.get(key, default) if orig_info else default
OrigInfoGet(orig_info, key, default) ==
    IF Truthy(orig_info) THEN Get(orig_info[1], key, Py(default)) ELSE Py(default)

\* Arguments and locals of a call before its first statement; data is the
\* ffprobe output its probe of the original parses.
NewCall(output_path, quality, delete_original) ==
    [ output_path |-> output_path,
      quality |-> quality,
      delete_original |-> delete_original,
      settings |-> PyNone,
      data |-> PyNone,
      width |-> PyNone,
      height |-> PyNone,
      fps |-> PyNone,
      final_output_path |-> PyNone,
      temp_output_path |-> PyNone,
      raw_temp_path |-> PyNone,
      backup_path |-> PyNone,
      process1 |-> "none",
      return_code1 |-> PyNone,
      return_code2 |-> PyNone,
      new_issues |-> PyNone,
      result |-> PyNone ]

MarkFixed_NoTime(video_info, output_path, quality) ==
    [video_info EXCEPT
        !.status = STATUS_FIXED,
        !.fixed_path = Py(output_path),
        !.conversion_params = Py(<<quality, Settings(quality)>>)]

\* The fields fix_video sets on the record once the output is in place.
MarkFixed(video_info, output_path, quality) ==
    [video_info EXCEPT
        !.status = STATUS_FIXED,
        !.fixed_path = Py(output_path),
        !.fixed_time = Py("now"),
        !.conversion_params = Py(<<quality, Settings(quality)>>)]

\* No call is running.
NoCall == NewCall(PyNone, "medium", FALSE)

InitFix ==
    /\ has_ffmpeg \in BOOLEAN
    /\ has_ffprobe \in BOOLEAN
    /\ probe_data = <<>>
    /\ probe_runs = <<>>
    /\ detected = Pending
    /\ found = PyNone
    /\ disk = [p \in Paths |-> IF p = VideoPath THEN "original" ELSE "absent"]
    /\ temp_files = <<>>
    /\ fixed_info \in { [VideoInfo(VideoPath) EXCEPT !.status = st] :
                          st \in {STATUS_ERROR, STATUS_OK} }
    /\ pc = "idle"
    /\ call = NoCall
    /\ fix_result = Result(FALSE, "")
    /\ n_calls = 0
    /\ AppIdle

\* The call returns, or raises, before the try block: no finally runs.
LeaveEarly(result) ==
    /\ fix_result' = result
    /\ call' = NoCall
    /\ pc' = "idle"

\* A return inside the try block: the finally clause runs before the
\* caller gets the value.
ReturnFromTry(c, success, message) ==
    /\ call' = [c EXCEPT !.result = Py(Result(success, message))]
    /\ pc' = "finally"

\* fix_video up to the try block: the early returns, the temp output file,
\* the probe of the original and the raw intermediate file.
FixBegin ==
    /\ pc = "idle"
    /\ n_calls < MaxCalls
    /\ n_calls' = n_calls + 1
    /\ \E output_path \in {PyNone, Py(SuffixedPath)}, quality \in Qualities,
          delete_original \in BOOLEAN, run \in RunOutcomes, data \in FixProbeOutputs :
        LET k == n_calls + 1
            replace == output_path = PyNone
            temp_output_path == IF replace THEN TempOutputPath(k) ELSE output_path[1]
            c0 == [NewCall(output_path, quality, delete_original) EXCEPT
                      !.settings = Py(Settings(quality)),
                      !.final_output_path = Py(IF replace THEN VideoPath ELSE output_path[1]),
                      !.temp_output_path = Py(temp_output_path)]
            disk0 == IF replace THEN [disk EXCEPT ![temp_output_path] = "empty"] ELSE disk
            temp0 == IF replace THEN Append(temp_files, temp_output_path) ELSE temp_files
            orig_info == _get_video_info(has_ffprobe, run, data)
        IN /\ delete_original => ~replace
           /\ Exists(VideoPath) \/ run # "ok"
           /\ IF ~has_ffmpeg
              THEN /\ LeaveEarly(Result(FALSE, MSG_NO_FFMPEG))
                   /\ UNCHANGED <<disk, temp_files>>
              ELSE IF fixed_info.status = STATUS_OK
              THEN /\ LeaveEarly(Result(TRUE, MSG_ALREADY_OK))
                   /\ UNCHANGED <<disk, temp_files>>
              ELSE IF orig_info.raised
              THEN /\ LeaveEarly(RaisedResult)
                   /\ disk' = disk0
                   /\ temp_files' = temp0
              ELSE /\ call' = [c0 EXCEPT
                              !.data = IF has_ffprobe THEN Py(data) ELSE PyNone,
                              !.width = OrigInfoGet(orig_info.ret, "width", 1920),
                              !.height = OrigInfoGet(orig_info.ret, "height", 1080),
                              !.fps = OrigInfoGet(orig_info.ret, "fps", 100 * 30),
                              !.raw_temp_path = Py(RawTempPath(k))]
                   /\ disk' = [disk0 EXCEPT ![RawTempPath(k)] = "empty"]
                   /\ temp_files' = Append(temp0, RawTempPath(k))
                   /\ pc' = "stage1"
                   /\ UNCHANGED fix_result
    /\ UNCHANGED <<has_ffmpeg, has_ffprobe, fixed_info>>
    /\ UNCHANGED detectVars
    /\ UNCHANGED appVars

Stage1_GoesOn ==
    /\ pc = "stage1"
    /\ \E outcome \in {"exit 0", "exit 1", "raise", "raise reading"} :
        /\ outcome = "exit 0" => Exists(VideoPath)
        /\ disk' = [disk EXCEPT ![call.raw_temp_path[1]] =
                        IF outcome = "exit 0" THEN "raw" ELSE @]
        /\ CASE outcome = "exit 0" ->
                  /\ call' = [call EXCEPT !.process1 = "exited", !.return_code1 = Py(0)]
                  /\ pc' = "stage2"
             [] outcome = "exit 1" ->
                  /\ call' = [call EXCEPT !.process1 = "exited", !.return_code1 = Py(1)]
                  /\ pc' = "stage2"
             [] outcome = "raise" ->
                  ReturnFromTry(call, FALSE, MSG_CONVERT_ERROR)
             [] outcome = "raise reading" ->
                  ReturnFromTry([call EXCEPT !.process1 = "running"],
                                FALSE, MSG_CONVERT_ERROR)
    /\ UNCHANGED <<has_ffmpeg, has_ffprobe, temp_files, fixed_info, fix_result, n_calls>>
    /\ UNCHANGED detectVars
    /\ UNCHANGED appVars

\* Stage 1: ffmpeg decodes the original into the raw intermediate file; its
\* stderr is read until the process has exited, then its exit code is read.
\* Popen may raise, and so may the reading, which leaves the process as it
\* is.
Stage1 ==
    /\ pc = "stage1"
    /\ \E outcome \in {"exit 0", "exit 1", "raise", "raise reading"} :
        /\ outcome = "exit 0" => Exists(VideoPath)
        /\ disk' = [disk EXCEPT ![call.raw_temp_path[1]] =
                        IF outcome = "exit 0" THEN "raw" ELSE @]
        /\ CASE outcome = "exit 0" ->
                  /\ call' = [call EXCEPT !.process1 = "exited", !.return_code1 = Py(0)]
                  /\ pc' = "stage2"
             [] outcome = "exit 1" ->
                  ReturnFromTry([call EXCEPT !.process1 = "exited", !.return_code1 = Py(1)],
                                FALSE, MSG_STAGE1)
             [] outcome = "raise" ->
                  ReturnFromTry(call, FALSE, MSG_CONVERT_ERROR)
             [] outcome = "raise reading" ->
                  ReturnFromTry([call EXCEPT !.process1 = "running"],
                                FALSE, MSG_CONVERT_ERROR)
    /\ UNCHANGED <<has_ffmpeg, has_ffprobe, temp_files, fixed_info, fix_result, n_calls>>
    /\ UNCHANGED detectVars
    /\ UNCHANGED appVars

\* Stage 2: ffmpeg encodes the raw file, with the audio of the original,
\* into temp_output_path (overwriting it) and its exit code is read.
Stage2 ==
    /\ pc = "stage2"
    /\ \E outcome \in {"exit 0", "exit 0, empty output", "exit 1", "raise"} :
        /\ outcome = "exit 0" => Exists(VideoPath) /\ disk[call.raw_temp_path[1]] = "raw"
        /\ disk' = [disk EXCEPT ![call.temp_output_path[1]] =
                        CASE outcome = "exit 0" -> "fixed"
                          [] outcome = "exit 0, empty output" -> "empty"
                          [] outcome = "exit 1" -> "partial"
                          [] outcome = "raise" -> @]
        /\ CASE outcome \in {"exit 0", "exit 0, empty output"} ->
                  /\ call' = [call EXCEPT !.return_code2 = Py(0)]
                  /\ pc' = "check_output"
             [] outcome = "exit 1" ->
                  ReturnFromTry([call EXCEPT !.return_code2 = Py(1)], FALSE, MSG_STAGE2)
             [] outcome = "raise" ->
                  ReturnFromTry(call, FALSE, MSG_CONVERT_ERROR)
    /\ UNCHANGED <<has_ffmpeg, has_ffprobe, temp_files, fixed_info, fix_result, n_calls>>
    /\ UNCHANGED detectVars
    /\ UNCHANGED appVars

\* not os.path.exists(path) or os.path.getsize(path) == 0
OutputMissing(path) == ~Exists(path)

OutputMissingOrEmpty(path) == ~Exists(path) \/ ~NonEmpty(path)

\* The output file must exist with a size other than 0.
CheckOutput ==
    /\ pc = "check_output"
    /\ IF OutputMissingOrEmpty(call.temp_output_path[1])
       THEN ReturnFromTry(call, FALSE, MSG_EMPTY_OUTPUT)
       ELSE pc' = "remove_raw" /\ UNCHANGED call
    /\ UNCHANGED <<has_ffmpeg, has_ffprobe, disk, temp_files, fixed_info, fix_result, n_calls>>
    /\ UNCHANGED detectVars
    /\ UNCHANGED appVars

\* os.remove of the raw file; when it raises the failure is only logged.
RemoveRaw ==
    /\ pc = "remove_raw"
    /\ \E removed \in BOOLEAN :
        /\ removed => Exists(call.raw_temp_path[1])
        /\ disk' = IF removed THEN [disk EXCEPT ![call.raw_temp_path[1]] = "absent"] ELSE disk
        /\ temp_files' = IF removed THEN ListRemove(temp_files, call.raw_temp_path[1])
                         ELSE temp_files
    /\ pc' = "verify"
    /\ UNCHANGED <<has_ffmpeg, has_ffprobe, fixed_info, call, fix_result, n_calls>>
    /\ UNCHANGED detectVars
    /\ UNCHANGED appVars

Verify_Escalating ==
    /\ pc = "verify"
    /\ \E new_issues \in BOOLEAN :
        IF new_issues
        THEN ReturnFromTry([call EXCEPT !.new_issues = Py(TRUE)], FALSE, MSG_CONVERT_ERROR)
        ELSE /\ call' = [call EXCEPT !.new_issues = Py(FALSE)]
             /\ pc' = IF call.temp_output_path # call.final_output_path
                      THEN "delete_original" ELSE "update_info"
    /\ UNCHANGED <<has_ffmpeg, has_ffprobe, disk, temp_files, fixed_info, fix_result, n_calls>>
    /\ UNCHANGED detectVars
    /\ UNCHANGED appVars

\* The analyzer is run on the new file; what it finds is only logged.
Verify ==
    /\ pc = "verify"
    /\ \E new_issues \in BOOLEAN : call' = [call EXCEPT !.new_issues = Py(new_issues)]
    /\ pc' = IF call.temp_output_path # call.final_output_path THEN "delete_original"
             ELSE "update_info"
    /\ UNCHANGED <<has_ffmpeg, has_ffprobe, disk, temp_files, fixed_info, fix_result, n_calls>>
    /\ UNCHANGED detectVars
    /\ UNCHANGED appVars

\* Replace, first half: the original is deleted; when os.remove raises it
\* is renamed to the backup path; when os.rename raises too the call fails.
DeleteOriginal ==
    /\ pc = "delete_original"
    /\ IF ~Exists(VideoPath)
       THEN pc' = "move_temp" /\ UNCHANGED <<disk, call>>
       ELSE \E outcome \in {"removed", "renamed", "raise"} :
              CASE outcome = "removed" ->
                     /\ disk' = [disk EXCEPT ![VideoPath] = "absent"]
                     /\ pc' = "move_temp"
                     /\ UNCHANGED call
                [] outcome = "renamed" ->
                     /\ disk' = [disk EXCEPT ![BackupPath] = disk[VideoPath],
                                             ![VideoPath] = "absent"]
                     /\ pc' = "move_temp"
                     /\ call' = [call EXCEPT !.backup_path = Py(BackupPath)]
                [] outcome = "raise" ->
                     /\ ReturnFromTry([call EXCEPT !.backup_path = Py(BackupPath)],
                                      FALSE, MSG_REPLACE)
                     /\ UNCHANGED disk
    /\ UNCHANGED <<has_ffmpeg, has_ffprobe, temp_files, fixed_info, fix_result, n_calls>>
    /\ UNCHANGED detectVars
    /\ UNCHANGED appVars

MoveTemp_KeepsListed ==
    /\ pc = "move_temp"
    /\ \E moved \in BOOLEAN :
        IF moved
        THEN /\ disk' = [disk EXCEPT ![call.final_output_path[1]] = disk[call.temp_output_path[1]],
                                     ![call.temp_output_path[1]] = "absent"]
             /\ pc' = "update_info"
             /\ UNCHANGED <<call, temp_files>>
        ELSE /\ ReturnFromTry(call, FALSE, MSG_REPLACE)
             /\ UNCHANGED <<disk, temp_files>>
    /\ UNCHANGED <<has_ffmpeg, has_ffprobe, fixed_info, fix_result, n_calls>>
    /\ UNCHANGED detectVars
    /\ UNCHANGED appVars

\* Replace, second half: shutil.move of the temp output to output_path and
\* its removal from _temp_files; when the move raises the call fails.
MoveTemp ==
    /\ pc = "move_temp"
    /\ \E moved \in BOOLEAN :
        IF moved
        THEN /\ disk' = [disk EXCEPT ![call.final_output_path[1]] = disk[call.temp_output_path[1]],
                                     ![call.temp_output_path[1]] = "absent"]
             /\ temp_files' = ListRemove(temp_files, call.temp_output_path[1])
             /\ pc' = "update_info"
             /\ UNCHANGED call
        ELSE /\ ReturnFromTry(call, FALSE, MSG_REPLACE)
             /\ UNCHANGED <<disk, temp_files>>
    /\ UNCHANGED <<has_ffmpeg, has_ffprobe, fixed_info, fix_result, n_calls>>
    /\ UNCHANGED detectVars
    /\ UNCHANGED appVars

\* The record becomes fixed and the call returns success.
UpdateInfo ==
    /\ pc = "update_info"
    /\ fixed_info' = MarkFixed(fixed_info, call.final_output_path[1], call.quality)
    /\ ReturnFromTry(call, TRUE, MSG_FIXED)
    /\ UNCHANGED <<has_ffmpeg, has_ffprobe, disk, temp_files, fix_result, n_calls>>
    /\ UNCHANGED detectVars
    /\ UNCHANGED appVars

\* The finally clause: the raw file is removed if it still exists (a
\* failure is ignored), then the caller gets the return value.
Finally ==
    /\ pc = "finally"
    /\ \E removed \in BOOLEAN :
        /\ removed => Exists(call.raw_temp_path[1])
        /\ disk' = IF removed THEN [disk EXCEPT ![call.raw_temp_path[1]] = "absent"] ELSE disk
        /\ temp_files' = IF removed THEN ListRemove(temp_files, call.raw_temp_path[1])
                         ELSE temp_files
    /\ fix_result' = call.result[1]
    /\ call' = NoCall
    /\ pc' = "idle"
    /\ UNCHANGED <<has_ffmpeg, has_ffprobe, fixed_info, n_calls>>
    /\ UNCHANGED detectVars
    /\ UNCHANGED appVars

Cleanup_KeepsRegistry ==
    /\ pc = "idle"
    /\ \E kept \in SUBSET {temp_files[i] : i \in 1..Len(temp_files)} :
        /\ disk' = [p \in Paths |->
                      IF p \in {temp_files[i] : i \in 1..Len(temp_files)} \ kept
                      THEN "absent" ELSE disk[p]]
        /\ temp_files' = SelectSeq(temp_files, LAMBDA p : p \in kept)
    /\ UNCHANGED <<has_ffmpeg, has_ffprobe, fixed_info, pc, call, fix_result, n_calls>>
    /\ UNCHANGED detectVars
    /\ UNCHANGED appVars

\* VideoDetector.cleanup, called between two fix_video calls: every listed
\* file that exists is removed unless os.remove raises; the list is emptied.
Cleanup ==
    /\ pc = "idle"
    /\ \E kept \in SUBSET {temp_files[i] : i \in 1..Len(temp_files)} :
        disk' = [p \in Paths |->
                   IF p \in {temp_files[i] : i \in 1..Len(temp_files)} \ kept
                   THEN "absent" ELSE disk[p]]
    /\ temp_files' = <<>>
    /\ UNCHANGED <<has_ffmpeg, has_ffprobe, fixed_info, pc, call, fix_result, n_calls>>
    /\ UNCHANGED detectVars
    /\ UNCHANGED appVars

NextFix ==
    \/ FixBegin
    \/ Stage1
    \/ Stage2
    \/ CheckOutput
    \/ RemoveRaw
    \/ Verify
    \/ DeleteOriginal
    \/ MoveTemp
    \/ UpdateInfo
    \/ Finally
    \/ Cleanup

SpecFix == InitFix /\ [][NextFix]_vars

(***************************************************************************)
(* SpecConvert: VideoConverter.create_preview and extract_frame            *)
(* (src/video_conversion.py), each call in two steps: the statements up to *)
(* the ffmpeg command, then the ffmpeg run and what follows it.  has_ffmpeg*)
(* and has_ffprobe stand for ffmpeg_path and ffprobe_path being set.       *)
(***************************************************************************)
\* The default output paths: name + "_preview" + ext, and
\* name + "_frame_" + timestamp + ".jpg".
PreviewPath == <<"dir", "video_preview.mp4">>
FramePath == <<"dir", "video_frame_now.jpg">>

\* What the converter's probe may print: up to two streams, video streams
\* with and without a duration, and a format object with or without one.
ConvertProbeOutputs ==
    LET streams ==
            {("codec_type" :> "video") @@ d :
                d \in Field("duration", {<<"1", "0", ".", "0", "0">>, <<"0">>,
                                         <<"-", "1">>, <<"N", "/", "A">>})}
            \cup {("codec_type" :> "audio") @@ ("duration" :> <<"1", "0", ".", "0", "0">>)}
        formats == Field("duration", {<<"1", "2", ".", "5">>, <<"0">>, <<"N", "/", "A">>})
    IN {EmptyDict}
       \cup {("streams" :> s) @@ f : s \in SeqsUpTo(streams, 2),
                                     f \in {EmptyDict} \cup {"format" :> g : g \in formats}}

\* VideoConverter.get_video_info: None without ffprobe, when the file is
\* missing and when ffprobe exits non-zero or prints no JSON.
get_video_info(ffprobe, exists, run, data) ==
    IF ffprobe /\ exists /\ run = "ok" THEN Py(data) ELSE PyNone

\* The loop over info["streams"]: every video stream whose duration float()
\* accepts assigns video_duration, so the last of them stays.
RECURSIVE StreamDuration(_, _, _)
StreamDuration(streams, i, video_duration) ==
    IF i > Len(streams) THEN video_duration
    ELSE LET stream == streams[i]
             parsed == IF Get(stream, "codec_type", "") = "video"
                          /\ "duration" \in DOMAIN stream
                       THEN float(stream["duration"]) ELSE PyNone
         IN StreamDuration(streams, i + 1,
                           IF parsed = PyNone THEN video_duration ELSE parsed[1])

\* video_duration as both methods determine it: 0, the value of the loop,
\* and the container's when that value is zero ("if not video_duration").
VideoDuration(info) ==
    LET video_duration == StreamDuration(Get(info, "streams", <<>>), 1, Decimal(0, 0))
        format == Get(info, "format", EmptyDict)
        container == IF "duration" \in DOMAIN format
                     THEN float(format["duration"]) ELSE Py(Decimal(0, 0))
    IN IF video_duration[1] = 0 /\ container # PyNone
       THEN container[1] ELSE video_duration

\* The value both methods return: (success, output_path, message).
Converted(success, output_path, message) ==
    [success |-> success, output_path |-> output_path, message |-> message]

InitConvert ==
    /\ has_ffmpeg \in BOOLEAN
    /\ has_ffprobe \in BOOLEAN
    /\ probe_data \in ConvertProbeOutputs
    /\ probe_runs = <<>>
    /\ detected = Pending
    /\ found = PyNone
    /\ disk = [p \in {VideoPath, PreviewPath, FramePath} |-> IF p = VideoPath THEN "original" ELSE "absent"]
    /\ temp_files = <<>>
    /\ fixed_info = <<>>
    /\ pc = "idle"
    /\ call = <<>>
    /\ fix_result = <<>>
    /\ n_calls = 0
    /\ AppIdle

\* A call of method(VideoPath, delete_original=...) with no output path, up
\* to the ffmpeg command: the early returns, the probe, the duration.
ConvertBegin(method, output_path) ==
    /\ pc = "idle"
    /\ n_calls < MaxCalls
    /\ n_calls' = n_calls + 1
    /\ \E delete_original \in BOOLEAN, run \in RunOutcomes :
        LET probes == has_ffmpeg /\ Exists(VideoPath) /\ has_ffprobe
            info == get_video_info(has_ffprobe, Exists(VideoPath), run, probe_data)
            leave(message) ==
                /\ fix_result' = Converted(FALSE, PyNone, message)
                /\ UNCHANGED <<pc, call>>
        IN /\ probe_runs' = IF probes THEN Append(probe_runs, run) ELSE probe_runs
           /\ IF ~has_ffmpeg THEN leave("FFmpeg unavailable")
              ELSE IF ~Exists(VideoPath) THEN leave("input file does not exist")
              ELSE IF ~Truthy(info) THEN leave("cannot get video info")
              ELSE IF VideoDuration(info[1])[1] <= 0
              THEN leave("cannot determine the video duration")
              ELSE /\ pc' = "ffmpeg"
                   /\ call' = [method |-> method,
                               delete_original |-> delete_original,
                               video_duration |-> VideoDuration(info[1]),
                               output_path |-> output_path]
                   /\ UNCHANGED fix_result
    /\ UNCHANGED <<has_ffmpeg, has_ffprobe, probe_data, detected, found>>
    /\ UNCHANGED <<disk, temp_files, fixed_info>>
    /\ UNCHANGED appVars

create_preview == ConvertBegin("create_preview", PreviewPath)
extract_frame == ConvertBegin("extract_frame", FramePath)

\* subprocess.run of the ffmpeg command and the rest of the try block:
\* ffmpeg raises, exits non-zero, or exits 0 leaving a complete, an empty
\* or no output file; after a complete one the input is removed when
\* delete_original is set, unless os.remove raises.
RunFfmpeg ==
    /\ pc = "ffmpeg"
    /\ pc' = "idle"
    /\ call' = <<>>
    /\ \E outcome \in {"raises", "nonzero", "ok"},
          written \in {"absent", "empty", "encoded"}, removed \in BOOLEAN :
        LET done == outcome = "ok" /\ written = "encoded"
            unlink == done /\ call.delete_original /\ removed
        IN /\ outcome = "raises" => written = "absent"
           /\ removed => done /\ call.delete_original
           /\ disk' = [disk EXCEPT
                         ![call.output_path] = IF written = "absent" THEN @ ELSE written,
                         ![VideoPath] = IF unlink THEN "absent" ELSE @]
           /\ fix_result' =
                CASE outcome = "raises" -> Converted(FALSE, PyNone, "error")
                  [] outcome = "nonzero" -> Converted(FALSE, PyNone, "failed")
                  [] outcome = "ok" /\ ~done ->
                        Converted(FALSE, PyNone, "output file missing or empty")
                  [] OTHER -> Converted(TRUE, Py(call.output_path), "created")
    /\ UNCHANGED <<has_ffmpeg, has_ffprobe, temp_files, fixed_info, n_calls>>
    /\ UNCHANGED detectVars
    /\ UNCHANGED appVars

SpecConvert == InitConvert /\ [][create_preview \/ extract_frame \/ RunFfmpeg]_vars

(***************************************************************************)
(* Spec: VideoDetectorApp.  The main thread runs the event handlers and    *)
(* the callbacks posted with master.after; each worker thread runs         *)
(* _detection_worker, _fix_worker or _batch_fix_worker, one loop step at a *)
(* time.  Only the posted callbacks that change the buttons are kept in    *)
(* after_queue; the log, the status line, the progress bar, the details    *)
(* pane and the message boxes are left out.                                *)
(***************************************************************************)
MaxFiles == 2       \* records in video_info_list
MaxThreads == 2     \* worker threads started in one run of the application
MaxPending == 2     \* callbacks waiting in after_queue

\* The files the user can add; two of them share a file name.
Files == {VideoPath, <<"dir", "clip.mp4">>, <<"other", "video.mp4">>}

\* Values of the quality combobox tried by the user.
AppQualities == {"high"}

\* What ffprobe prints for a file the analyzer accepts, and for one it
\* rejects.
CompliantOutput ==
    ("streams" :> << ("codec_type" :> "video") @@ ("width" :> 1280)
                       @@ ("height" :> 720) @@ ("codec_name" :> "h264")
                       @@ ("pix_fmt" :> "yuv420p"),
                     ("codec_type" :> "audio") @@ ("codec_name" :> "aac") >>)
    @@ ("format" :> ("duration" :> <<"1", "2", ".", "5">>))
IncompatibleOutput ==
    ("streams" :> << ("codec_type" :> "video") @@ ("width" :> 1280)
                       @@ ("height" :> 720) @@ ("codec_name" :> "hevc")
                       @@ ("pix_fmt" :> "yuv420p") >>)
    @@ ("format" :> ("duration" :> <<"1", "2", ".", "5">>))
AppProbeOutputs == {CompliantOutput, IncompatibleOutput}
AppRunPlans == {<<>>, <<"nonzero">>}

\* Python's 0-based list access and range.
At(list, index) == list[index + 1]
Upto(n) == [k \in 1..n |-> k - 1]
InRange(list, index) == index >= 0 /\ index < Len(list)

_update_buttons(b, list, selected) ==
    LET has_files == Len(list) > 0
        has_selection == selected >= 0
        has_errors == \E k \in 1..Len(list) : list[k].status = STATUS_ERROR
        can_fix == IF has_selection /\ selected < Len(list)
                   THEN At(list, selected).status = STATUS_ERROR
                   ELSE FALSE
    IN [b EXCEPT !.start_btn = has_files,
                 !.fix_btn = can_fix,
                 !.fix_all_btn = has_errors,
                 !.clear_btn = has_files]

_set_ui_state(b, enabled, list, selected) ==
    LET set == [b EXCEPT !.add_btn = enabled,
                         !.folder_btn = enabled,
                         !.start_btn = enabled,
                         !.clear_btn = enabled]
    IN IF enabled
       THEN _update_buttons(set, list, selected)
       ELSE [set EXCEPT !.fix_btn = FALSE, !.fix_all_btn = FALSE]

\* The k-th thread the application starts is workers[k]: NoWorker until
\* it is started, Ended once it has run its finally clause.
NoWorker == [kind |-> "none"]
Ended == [kind |-> "ended"]

\* The locals of a worker thread as it starts.  list_live says that the
\* list object the thread knows is still self.video_info_list, own holds
\* the file paths of that object once _clear_list has rebound the
\* attribute; info_live says that the record the thread holds in info is
\* still the one in the list.  delete_original is left out: the workers
\* pass it to fix_video and use it in the text of a message box only.
NewWorker(kind, indices, output_path, keep_original_name, quality) ==
    [ kind |-> kind,
      pc |-> "begin",
      i |-> 0,
      indices |-> indices,
      output_path |-> output_path,
      keep_original_name |-> keep_original_name,
      quality |-> quality,
      list_live |-> TRUE,
      own |-> <<>>,
      info_live |-> FALSE,
      path |-> PyNone ]

Alive(t) == workers[t].kind \notin {"none", "ended"}
FreeSlots == {t \in 1..MaxThreads : workers[t] = NoWorker}
FirstFree == CHOOSE t \in FreeSlots : \A u \in FreeSlots : t <= u

\* threading.Thread(target=..., daemon=True).start()
StartThread(w) == workers' = [workers EXCEPT ![FirstFree] = w]

InitApp ==
    /\ has_ffmpeg \in BOOLEAN
    /\ has_ffprobe \in BOOLEAN
    /\ probe_data = <<>>
    /\ probe_runs = <<>>
    /\ detected = Pending
    /\ found = PyNone
    /\ FixIdle
    /\ video_info_list = <<>>
    /\ selected_video_index = -1
    /\ tree = <<>>
    /\ buttons = [ add_btn |-> TRUE, folder_btn |-> TRUE, start_btn |-> TRUE,
                   fix_btn |-> FALSE, fix_all_btn |-> FALSE, clear_btn |-> TRUE ]
    /\ workers = [t \in 1..MaxThreads |-> NoWorker]
    /\ after_queue = <<>>

Frame == UNCHANGED <<has_ffmpeg, has_ffprobe>> /\ UNCHANGED detectVars /\ UNCHANGED fixVars

\* _browse_videos or _browse_folder adding one file: _add_to_file_list.
AddFile ==
    /\ buttons.add_btn \/ buttons.folder_btn
    /\ Len(video_info_list) < MaxFiles
    /\ \E file_path \in Files :
        /\ \A k \in 1..Len(video_info_list) : video_info_list[k].filepath # file_path
        /\ video_info_list' = Append(video_info_list, VideoInfo(file_path))
        /\ tree' = Append(tree, Basename(file_path))
    /\ buttons' = _update_buttons(buttons, video_info_list', selected_video_index)
    /\ UNCHANGED <<selected_video_index, workers, after_queue>>
    /\ Frame

\* The loop of _on_tree_select: the index of the first record of the list
\* whose filename is the one the row shows, None when no record has it.
RecordOfRow(list, filename) ==
    LET matches == {k \in 1..Len(list) : list[k].filename = filename}
    IN IF matches = {} THEN PyNone
       ELSE Py((CHOOSE k \in matches : \A m \in matches : k <= m) - 1)

\* The user selects a row: the first record with the row's file name
\* becomes the selected one.
_on_tree_select ==
    /\ \E row \in 1..Len(tree) :
        /\ RecordOfRow(video_info_list, tree[row]) # PyNone
        /\ selected_video_index' = RecordOfRow(video_info_list, tree[row])[1]
    /\ buttons' = _update_buttons(buttons, video_info_list, selected_video_index')
    /\ UNCHANGED <<video_info_list, tree, workers, after_queue>>
    /\ Frame

\* The user clicks "clear list" and confirms.  The attribute is rebound to
\* a new list: a running thread keeps the old list and the records in it.
_clear_list ==
    /\ buttons.clear_btn
    /\ video_info_list # <<>>
    /\ video_info_list' = <<>>
    /\ tree' = <<>>
    /\ selected_video_index' = -1
    /\ buttons' = _update_buttons(buttons, <<>>, -1)
    /\ workers' = [t \in 1..MaxThreads |->
                     IF ~Alive(t) THEN workers[t]
                     ELSE [workers[t] EXCEPT
                             !.list_live = FALSE,
                             !.info_live = FALSE,
                             !.own = IF workers[t].list_live
                                     THEN [k \in 1..Len(video_info_list) |->
                                             video_info_list[k].filepath]
                                     ELSE @]]
    /\ UNCHANGED after_queue
    /\ Frame

\* The user clicks "start detection" and confirms a repeated detection.
_start_detection ==
    /\ buttons.start_btn
    /\ video_info_list # <<>>
    /\ FreeSlots # {}
    /\ buttons' = _set_ui_state(buttons, FALSE, video_info_list, selected_video_index)
    /\ StartThread(NewWorker("detect", <<>>, PyNone, FALSE, "medium"))
    /\ UNCHANGED <<video_info_list, selected_video_index, tree, after_queue>>
    /\ Frame

\* The user clicks "fix selected", chooses the options and confirms.
_fix_selected ==
    /\ buttons.fix_btn
    /\ InRange(video_info_list, selected_video_index)
    /\ At(video_info_list, selected_video_index).status = STATUS_ERROR
    /\ FreeSlots # {}
    /\ \E keep_original_name \in BOOLEAN, quality \in AppQualities :
        LET info == At(video_info_list, selected_video_index)
            output_path == IF keep_original_name THEN PyNone
                           ELSE Py(OutputPathFor(info.filepath))
        IN StartThread(NewWorker("fix", <<selected_video_index>>, output_path,
                                 keep_original_name, quality))
    /\ buttons' = _set_ui_state(buttons, FALSE, video_info_list, selected_video_index)
    /\ UNCHANGED <<video_info_list, selected_video_index, tree, after_queue>>
    /\ Frame

\* The user clicks "fix all", chooses the options and confirms.
_fix_all ==
    /\ buttons.fix_all_btn
    /\ FreeSlots # {}
    /\ LET error_indices ==
               SelectSeq(Upto(Len(video_info_list)),
                         LAMBDA index : At(video_info_list, index).status = STATUS_ERROR)
       IN /\ error_indices # <<>>
          /\ \E keep_original_name \in BOOLEAN, quality \in AppQualities :
               StartThread(NewWorker("batch", error_indices, PyNone, keep_original_name,
                                     quality))
    /\ buttons' = _set_ui_state(buttons, FALSE, video_info_list, selected_video_index)
    /\ UNCHANGED <<video_info_list, selected_video_index, tree, after_queue>>
    /\ Frame

\* The main loop runs the oldest posted callback.
RunCallback ==
    /\ after_queue # <<>>
    /\ after_queue' = Tail(after_queue)
    /\ buttons' = IF Head(after_queue) = "_set_ui_state"
                  THEN _set_ui_state(buttons, TRUE, video_info_list, selected_video_index)
                  ELSE _update_buttons(buttons, video_info_list, selected_video_index)
    /\ UNCHANGED <<video_info_list, selected_video_index, tree, workers>>
    /\ Frame

\* The ways a fix_video call on a record of the given status can end: its
\* return statements, and the exception of the probe of the original,
\* which is raised outside the try block.
FixVideoResults(status, output_path) ==
    IF ~has_ffmpeg THEN {Result(FALSE, MSG_NO_FFMPEG)}
    ELSE IF status = STATUS_OK THEN {Result(TRUE, MSG_ALREADY_OK)}
    ELSE (IF has_ffprobe THEN {RaisedResult} ELSE {})
         \cup {Result(FALSE, m) : m \in {MSG_STAGE1, MSG_STAGE2, MSG_EMPTY_OUTPUT,
                                         MSG_CONVERT_ERROR}}
         \cup (IF output_path = PyNone THEN {Result(FALSE, MSG_REPLACE)} ELSE {})
         \cup {Result(TRUE, MSG_FIXED)}

\* The list after "info.status = status" on the record at index, which is
\* in the list only while live holds.
SetStatus(list, index, live, status) ==
    IF live /\ InRange(list, index)
    THEN [list EXCEPT ![index + 1].status = status]
    ELSE list

\* The file paths of the list object a detection thread iterates over.
SweepPaths(w) ==
    IF w.list_live
    THEN [k \in 1..Len(video_info_list) |-> video_info_list[k].filepath]
    ELSE w.own

\* _detection_worker, top of the loop: the next record becomes processing,
\* or the loop ends.
SweepNext(t) ==
    LET w == workers[t]
        paths == SweepPaths(w)
    IN /\ w.kind = "detect" /\ w.pc = "begin"
       /\ IF w.i >= Len(paths)
          THEN /\ workers' = [workers EXCEPT ![t].pc = "finally"]
               /\ UNCHANGED video_info_list
          ELSE /\ video_info_list' = SetStatus(video_info_list, w.i, w.list_live,
                                               STATUS_PROCESSING)
               /\ workers' = [workers EXCEPT ![t].pc = "call",
                                             ![t].path = Py(paths[w.i + 1])]
       /\ UNCHANGED <<selected_video_index, tree, buttons, after_queue>>
       /\ Frame

\* _detection_worker, rest of the loop body: detect_video, and the
\* returned record stored at self.video_info_list[i] if there is one.  A
\* thread holding the replaced record in info holds a record no longer in
\* the list.
SweepDetect(t) ==
    LET w == workers[t]
    IN /\ w.kind = "detect" /\ w.pc = "call"
       /\ \E exists \in BOOLEAN, plan \in AppRunPlans, data \in AppProbeOutputs :
           LET detected_info == detect_video(w.path[1], exists, has_ffprobe,
                                     Run(plan, 1), Run(plan, 2), Run(plan, 3), data)
               done == w
           IN IF detected_info = PyNone
              THEN /\ workers' = [workers EXCEPT ![t] = [done EXCEPT !.i = @ + 1,
                                                                     !.pc = "begin"]]
                   /\ UNCHANGED video_info_list
              ELSE IF ~InRange(video_info_list, w.i)
              THEN /\ workers' = [workers EXCEPT ![t] = [done EXCEPT !.pc = "finally"]]
                   /\ UNCHANGED video_info_list
              ELSE /\ video_info_list' = [video_info_list EXCEPT ![w.i + 1] = detected_info[1]]
                   /\ workers' =
                        [u \in 1..MaxThreads |->
                           IF u = t THEN [done EXCEPT !.i = @ + 1, !.pc = "begin"]
                           ELSE IF Alive(u) /\ workers[u].kind # "detect"
                                   /\ workers[u].pc = "call"
                                   /\ workers[u].indices[workers[u].i + 1] = w.i
                           THEN [workers[u] EXCEPT !.info_live = FALSE]
                           ELSE workers[u]]
       /\ UNCHANGED <<selected_video_index, tree, buttons, after_queue>>
       /\ Frame

\* A repair thread takes the record at index: it becomes processing.
TakeRecord(t, index) ==
    /\ video_info_list' = SetStatus(video_info_list, index, TRUE, STATUS_PROCESSING)
    /\ workers' = [workers EXCEPT ![t].pc = "call",
                                  ![t].info_live = TRUE,
                                  ![t].path = Py(At(video_info_list, index).filepath)]

\* A repair thread calls fix_video on the record it holds and handles the
\* (success, message) pair; an exception leaves the loop for the except
\* clause.  next is the thread's pc after a call that returned.
CallFixVideo(t, index, output_path, next) ==
    LET w == workers[t]
        status == IF w.info_live THEN At(video_info_list, index).status
                  ELSE STATUS_PROCESSING
    IN \E result \in FixVideoResults(status, output_path) :
        LET fixed_path == IF output_path = PyNone THEN w.path[1] ELSE output_path[1]
            list == IF result.raised \/ ~w.info_live
                       THEN video_info_list
                    ELSE IF ~result.success
                       THEN SetStatus(video_info_list, index, TRUE, STATUS_ERROR)
                    ELSE IF result.message = MSG_FIXED
                       THEN [video_info_list EXCEPT
                               ![index + 1] = MarkFixed(@, fixed_path, w.quality)]
                    ELSE video_info_list
        IN /\ video_info_list' = list
           /\ workers' = [workers EXCEPT
                 ![t].i = IF result.raised THEN @ ELSE @ + 1,
                 ![t].pc = IF result.raised THEN "finally" ELSE next]

\* _fix_worker up to the fix_video call.
FixWorkerBegin(t) ==
    LET w == workers[t]
        index == w.indices[1]
    IN /\ w.kind = "fix" /\ w.pc = "begin"
       /\ IF ~InRange(video_info_list, index)
          THEN /\ workers' = [workers EXCEPT ![t].pc = "finally"]
               /\ UNCHANGED video_info_list
          ELSE TakeRecord(t, index)
       /\ UNCHANGED <<selected_video_index, tree, buttons, after_queue>>
       /\ Frame

\* _fix_worker from the fix_video call on.
FixWorkerCall(t) ==
    LET w == workers[t]
    IN /\ w.kind = "fix" /\ w.pc = "call"
       /\ CallFixVideo(t, w.indices[1], w.output_path, "finally")
       /\ UNCHANGED <<selected_video_index, tree, buttons, after_queue>>
       /\ Frame

\* _batch_fix_worker, top of the loop: an index outside the list is
\* skipped, the record at the next index becomes processing, or the loop
\* ends.
BatchWorkerBegin(t) ==
    LET w == workers[t]
    IN /\ w.kind = "batch" /\ w.pc = "begin"
       /\ IF w.i >= Len(w.indices)
          THEN /\ workers' = [workers EXCEPT ![t].pc = "finally"]
               /\ UNCHANGED video_info_list
          ELSE IF ~InRange(video_info_list, w.indices[w.i + 1])
          THEN /\ workers' = [workers EXCEPT ![t].i = @ + 1]
               /\ UNCHANGED video_info_list
          ELSE TakeRecord(t, w.indices[w.i + 1])
       /\ UNCHANGED <<selected_video_index, tree, buttons, after_queue>>
       /\ Frame

\* _batch_fix_worker, rest of the loop body.
BatchWorkerCall(t) ==
    LET w == workers[t]
        output_path == IF w.keep_original_name THEN PyNone
                       ELSE Py(OutputPathFor(w.path[1]))
    IN /\ w.kind = "batch" /\ w.pc = "call"
       /\ CallFixVideo(t, w.indices[w.i + 1], output_path, "begin")
       /\ UNCHANGED <<selected_video_index, tree, buttons, after_queue>>
       /\ Frame

\* The finally clause of a worker: it posts the callbacks that restore the
\* interface, and the thread ends.
WorkerFinally(t) ==
    /\ Alive(t) /\ workers[t].pc = "finally"
    /\ Len(after_queue) + 2 <= MaxPending
    /\ after_queue' = after_queue \o <<"_set_ui_state", "_update_buttons">>
    /\ workers' = [workers EXCEPT ![t] = Ended]
    /\ UNCHANGED <<video_info_list, selected_video_index, tree, buttons>>
    /\ Frame

Next ==
    \/ AddFile
    \/ _on_tree_select
    \/ _clear_list
    \/ _start_detection
    \/ _fix_selected
    \/ _fix_all
    \/ RunCallback
    \/ \E t \in 1..MaxThreads : SweepNext(t)
    \/ \E t \in 1..MaxThreads : SweepDetect(t)
    \/ \E t \in 1..MaxThreads : FixWorkerBegin(t)
    \/ \E t \in 1..MaxThreads : FixWorkerCall(t)
    \/ \E t \in 1..MaxThreads : BatchWorkerBegin(t)
    \/ \E t \in 1..MaxThreads : BatchWorkerCall(t)
    \/ \E t \in 1..MaxThreads : WorkerFinally(t)

Spec == InitApp /\ [][Next]_vars

(***************************************************************************)
(* Claims about the analyzer and detect_video (SpecDetect)                 *)
(***************************************************************************)
\* The record detect_video returned, when it returned one.
DetectedRecord == detected # Pending /\ detected[1] # PyNone
TheRecord == detected[1][1]
Streams == Get(probe_data, "streams", <<>>)
StreamsOfType(type) ==
    {i \in 1..Len(Streams) : Get(Streams[i], "codec_type", "") = type}
CountRule(issues, rule) == Cardinality({i \in 1..Len(issues) : issues[i].rule = rule})

\* The analyzer ran and both of its ffprobe runs succeeded.
AnalyzerProbed == found # PyNone /\ probe_runs = <<"ok", "ok", "ok">>
\* The analyzer ran and one of its two ffprobe runs failed.
AnalyzerProbeFailed ==
    /\ found # PyNone
    /\ Len(probe_runs) >= 2
    /\ probe_runs[Len(probe_runs)] # "ok"

\* C7: when an ffprobe run made by the analyzer fails, detect_video does
\* not return a record whose status is ok.
C7_AnalyzerProbeFailureNotOk ==
    (DetectedRecord /\ AnalyzerProbeFailed) => TheRecord.status # STATUS_OK

\* C8 as stated: for an existing file whose ffprobe runs all succeed, the
\* status is ok if and only if both issue lists of the analyzer are empty,
\* and error otherwise.
ProbeSucceeded ==
    /\ detected # Pending
    /\ has_ffprobe
    /\ probe_runs = <<"ok", "ok", "ok">>
AnalyzerLists == _identify_problematic_streams(TRUE, "ok", "ok", probe_data)
HasDescriptor ==
    \/ StreamsOfType("video") # {}
    \/ StreamsOfType("audio") # {}
    \/ "duration" \in DOMAIN Get(probe_data, "format", EmptyDict)
FieldsAbsent(stream) ==
    DOMAIN stream \cap {"codec_name", "pix_fmt", "color_space", "side_data_list"} = {}
C9_AbsentFieldsNoIssues ==
    (AnalyzerProbed /\ \A i \in 1..Len(Streams) : FieldsAbsent(Streams[i]))
        => found[1] = NoIssues

\* C10: the analyzer reports one codec issue per video stream whose codec
\* name is hevc, h265, av1 or vp9 in any letter case, whatever the other
\* fields of the stream are, and no codec issue for any other stream.
IncompatibleCodecName(name) ==
    name \in {"hevc", "HEVC", "Hevc", "h265", "H265", "av1", "AV1", "Av1", "vp9", "VP9", "Vp9"}
HasIncompatibleCodec(stream) ==
    "codec_name" \in DOMAIN stream /\ IncompatibleCodecName(stream["codec_name"])
C10_OneCodecIssuePerStream ==
    AnalyzerProbed =>
        /\ CountRule(found[1].video_issues, "codec")
             = Cardinality({i \in StreamsOfType("video") : HasIncompatibleCodec(Streams[i])})
        /\ CountRule(found[1].audio_issues, "codec") = 0

\* C10 witness: a single video stream named HEVC with a flagged pixel
\* format, a flagged color space and ambient side data got one codec issue.
C10_Witness ==
    /\ AnalyzerProbed
    /\ Cardinality(StreamsOfType("video")) = 1
    /\ \E i \in StreamsOfType("video") :
          /\ Get(Streams[i], "codec_name", "") = "HEVC"
          /\ Get(Streams[i], "pix_fmt", "") = "yuv444p"
          /\ Get(Streams[i], "color_space", "") = "bt2020nc"
          /\ "side_data_list" \in DOMAIN Streams[i]
    /\ CountRule(found[1].video_issues, "codec") = 1
    /\ Len(found[1].video_issues) > 1

\* C11: the analyzer reports one audio issue per audio stream whose codec
\* name is not aac, mp3 or pcm_s16le (names compared in any letter case),
\* and none for an audio stream whose codec name is one of the three.
\* Issues quoting an empty name come from streams with no codec name.
CompatibleAudioName(name) ==
    name \in {"aac", "AAC", "Aac", "mp3", "MP3", "Mp3", "pcm_s16le", "PCM_S16LE"}
NamedAudioStreams ==
    {i \in StreamsOfType("audio") : "codec_name" \in DOMAIN Streams[i]}
IssuesQuotingAName(issues) ==
    {k \in 1..Len(issues) : issues[k].rule = "audio" /\ issues[k].arg # ""}
C11_OneAudioIssuePerStream ==
    AnalyzerProbed =>
        /\ Cardinality(IssuesQuotingAName(found[1].audio_issues))
             = Cardinality({i \in NamedAudioStreams :
                              ~CompatibleAudioName(Streams[i]["codec_name"])})
        /\ CountRule(found[1].video_issues, "audio") = 0

\* C11 witness: a file with an mp3 stream and an opus stream got one audio
\* issue, the one quoting opus.
C11_Witness ==
    /\ AnalyzerProbed
    /\ \E i, j \in NamedAudioStreams :
          /\ Streams[i]["codec_name"] = "mp3"
          /\ Streams[j]["codec_name"] = "opus"
    /\ Cardinality(NamedAudioStreams) = 2
    /\ found[1].audio_issues = <<Issue("audio", "opus")>>

\* The first stream of the given type, the empty dict when there is none.
FirstOfType(type) ==
    IF StreamsOfType(type) = {} THEN EmptyDict ELSE Streams[FirstStream(Streams, type)]
\* The descriptor fields of a record: where ffprobe reports each.
DescriptorSources ==
    { <<"width", "video", "width">>, <<"height", "video", "height">>,
      <<"codec", "video", "codec_name">>, <<"pixel_format", "video", "pix_fmt">>,
      <<"color_space", "video", "color_space">>, <<"fps", "video", "r_frame_rate">>,
      <<"video_bitrate", "video", "bit_rate">>,
      <<"audio_codec", "audio", "codec_name">>, <<"audio_bitrate", "audio", "bit_rate">> }

\* detect_video returned a record and its own ffprobe run succeeded.
Probed ==
    /\ DetectedRecord
    /\ has_ffprobe
    /\ Run(probe_runs, 1) = "ok"
\* The first video stream of the ffprobe output has this r_frame_rate.
HasFrameRate(rate) ==
    /\ StreamsOfType("video") # {}
    /\ GetOpt(Streams[FirstStream(Streams, "video")], "r_frame_rate") = Py(rate)
\* h hundredths is a nearest multiple of 0.01 to num / den.
NearestHundredth(h, num, den) == 2 * Abs(h * den - 100 * num) <= Abs(den)

\* C19: in the record detect_video returns for a file whose ffprobe runs
\* all succeed, every descriptor field that the ffprobe output does not
\* have is None.
C19_AbsentFieldsUnset ==
    (ProbeSucceeded /\ DetectedRecord) =>
        /\ \A d \in DescriptorSources :
              d[3] \notin DOMAIN FirstOfType(d[2]) => TheRecord[d[1]] = PyNone
        /\ "duration" \notin DOMAIN Get(probe_data, "format", EmptyDict)
              => TheRecord.duration = PyNone

\* C20: for a file whose r_frame_rate is "num/den", the fps of the record
\* is None when den is 0, and the probe has not raised; otherwise it is
\* num / den rounded to the nearest hundredth, 29.97 for 30000/1001.
C20_FrameRateRounded ==
    \A num \in Numerators, den \in Denominators :
        (Probed /\ HasFrameRate(RateString(num, den))) =>
            /\ TheRecord.error_message # Py(MSG_DETECT_FAILED)
            /\ den = 0 => TheRecord.fps = PyNone
            /\ den # 0 =>
                  /\ TheRecord.fps # PyNone
                  /\ NearestHundredth(TheRecord.fps[1], num, den)
            /\ (num = 30000 /\ den = 1001) => TheRecord.fps = Py(2997)

\* C20 witness: a file with r_frame_rate "30000/1001" was probed and its
\* record has fps 29.97.
C20_Witness ==
    /\ Probed
    /\ HasFrameRate(<<"3", "0", "0", "0", "0", "/", "1", "0", "0", "1">>)
    /\ TheRecord.fps = Py(2997)

\* The numeric value of the duration key of a dict, None when the key is
\* absent or its value is not a number.
NumericDuration(d) ==
    IF "duration" \in DOMAIN d THEN float(d["duration"]) ELSE PyNone

\* C21: the duration of the record of a file whose ffprobe runs all
\* succeed is the duration of the first video stream when that is numeric,
\* else the duration of the container when that is numeric, else None.
C21_StreamDurationFirst ==
    (ProbeSucceeded /\ DetectedRecord) =>
        LET stream == NumericDuration(FirstOfType("video"))
            container == NumericDuration(Get(probe_data, "format", EmptyDict))
        IN TheRecord.duration = IF stream # PyNone THEN stream ELSE container

\* The streams of the file without every video stream after the first and
\* every audio stream after the first.
RECURSIVE WithoutLaterStreams(_)
WithoutLaterStreams(i) ==
    IF i > Len(Streams) THEN <<>>
    ELSE LET type == Get(Streams[i], "codec_type", "")
             later == type \in {"video", "audio"} /\ FirstStream(Streams, type) # i
         IN (IF later THEN <<>> ELSE <<Streams[i]>>) \o WithoutLaterStreams(i + 1)
PrimaryOnly == ("streams" :> WithoutLaterStreams(1)) @@ probe_data

\* C25: the issue lists of the analyzer and the status detect_video sets
\* are those of the same file without its later video and audio streams.
C25_FirstStreamsOnly ==
    (ProbeSucceeded /\ DetectedRecord /\ AnalyzerProbed) =>
        /\ found[1] = _identify_problematic_streams(TRUE, "ok", "ok", PrimaryOnly)
        /\ TheRecord.status =
             detect_video(VideoPath, TRUE, TRUE, "ok", "ok", "ok", PrimaryOnly)[1].status

\* Whether a video stream matches a rule of the analyzer.
MatchesRule(stream, rule) ==
    CASE rule = "codec" -> HasIncompatibleCodec(stream)
      [] rule = "pix_fmt" ->
            /\ "pix_fmt" \in DOMAIN stream
            /\ stream["pix_fmt"] \notin {"", "yuv420p", "yuvj420p", "rgb24", "bgr24"}
      [] rule = "color_space" ->
            /\ "color_space" \in DOMAIN stream
            /\ stream["color_space"] \notin {"", "bt709", "bt601", "bt470bg", "smpte170m"}
      [] rule = "side_data" ->
            \E k \in 1..Len(Get(stream, "side_data_list", <<>>)) :
                Get(stream["side_data_list"][k], "side_data_type", "")
                    = "Ambient viewing environment"

\* C26: for each of the four video rules, the analyzer's video issues hold
\* one issue of that rule per video stream matching it, however many
\* side-data blocks a stream carries.
C26_EachRuleReportedOnce ==
    AnalyzerProbed =>
        \A rule \in {"codec", "pix_fmt", "color_space", "side_data"} :
            CountRule(found[1].video_issues, rule)
                = Cardinality({i \in StreamsOfType("video") : MatchesRule(Streams[i], rule)})

(***************************************************************************)
(* Claims about fix_video and cleanup (SpecFix)                            *)
(***************************************************************************)
\* C1: the original is removed, renamed or overwritten, and the backup
\* path written, only by the replace step of a call whose stage 1 and
\* stage 2 both exited with code 0 and whose output file is not empty; a
\* call whose stage 1 exits non-zero returns failure without running
\* stage 2.
OriginalTouched ==
    \/ disk'[VideoPath] # disk[VideoPath]
    \/ disk'[BackupPath] # disk[BackupPath]
BothStagesDone ==
    /\ pc \in {"delete_original", "move_temp"}
    /\ call.return_code1 = Py(0)
    /\ call.return_code2 = Py(0)
    /\ NonEmpty(call.temp_output_path[1])
Stage1FailureIsFailure ==
    (pc = "finally" /\ call.return_code1 = Py(1)) =>
        /\ ~call.result[1].success
        /\ call.return_code2 = PyNone
C1_ReplaceOnlyAfterBothStages ==
    /\ [][OriginalTouched => BothStagesDone]_vars
    /\ []Stage1FailureIsFailure

\* C1 witness: a call in replace mode has moved its output over the
\* original after both stages exited with code 0.
C1_Witness ==
    /\ pc = "update_info"
    /\ call.output_path = PyNone
    /\ call.return_code1 = Py(0)
    /\ call.return_code2 = Py(0)
    /\ disk[VideoPath] = "fixed"

\* C2: between calls of fix_video and cleanup the video is on disk, as the
\* original content or as a complete re-encoded output.
VideoOnDisk == \E p \in Paths : disk[p] \in {"original", "fixed"}
C2_VideoNeverLost == pc = "idle" => VideoOnDisk

\* A fix_video call returns a (success, message) pair in this step.
FixVideoReturns ==
    /\ pc' = "idle"
    /\ pc # "idle" \/ n_calls' # n_calls
    /\ ~fix_result'.raised

\* C12: when fix_video returns, neither the raw intermediate file nor the
\* temp output file that the call created is on disk.
C12_NoTempFileAfterReturn ==
    [][FixVideoReturns =>
          /\ disk'[TempOutputPath(n_calls')] = "absent"
          /\ disk'[RawTempPath(n_calls')] = "absent"]_vars

\* The repair fields of a record, as a group.
RepairFields(info) == {info.fixed_path, info.fixed_time, info.conversion_params}
RepairFieldsSet(info) == PyNone \notin RepairFields(info)
RepairFieldsUnset(info) == RepairFields(info) = {PyNone}

\* C13: fixed_path, fixed_time and conversion_params of the record are all
\* set or all unset, and they change only in the step of a call that ran
\* both stages to exit code 0 and makes the status fixed.
C13_RepairFieldsAsAGroup ==
    /\ [](RepairFieldsSet(fixed_info) \/ RepairFieldsUnset(fixed_info))
    /\ [][(fixed_info'.fixed_path # fixed_info.fixed_path
             \/ fixed_info'.fixed_time # fixed_info.fixed_time
             \/ fixed_info'.conversion_params # fixed_info.conversion_params)
          => /\ pc = "update_info"
             /\ call.return_code1 = Py(0)
             /\ call.return_code2 = Py(0)
             /\ fixed_info'.status = STATUS_FIXED
             /\ RepairFieldsSet(fixed_info')]_vars

\* C13 witness: a call returned success and left the three fields set.
C13_Witness ==
    /\ pc = "idle"
    /\ fix_result = Result(TRUE, MSG_FIXED)
    /\ fixed_info.status = STATUS_FIXED
    /\ RepairFieldsSet(fixed_info)

\* The (preset, CRF) pair the quality tiers stand for.
TierOf(q) ==
    CASE q = "high" -> <<"slow", "18">>
      [] q = "medium" -> <<"medium", "23">>
      [] q = "low" -> <<"ultrafast", "28">>
      [] OTHER -> <<"medium", "23">>

\* A call of fix_video ends, by a return or an exception, before stage 1.
EndsBeforeStage1 ==
    /\ pc = "idle"
    /\ n_calls' # n_calls
    /\ pc' = "idle"

\* C17: in stage 2 the preset and the CRF are those of the tier of the
\* quality argument, the medium ones for a value that names no tier; and a
\* call ends before stage 1 only without ffmpeg, on a record that is ok, or
\* by the exception of the probe of the original, never for its quality.
C17_QualityTiers ==
    /\ [](pc = "stage2" =>
            /\ call.settings # PyNone
            /\ <<call.settings[1].preset, call.settings[1].crf>> = TierOf(call.quality))
    /\ [][EndsBeforeStage1 =>
             \/ fix_result'.raised /\ has_ffprobe
             \/ fix_result' = Result(FALSE, MSG_NO_FFMPEG) /\ ~has_ffmpeg
             \/ fix_result' = Result(TRUE, MSG_ALREADY_OK) /\ fixed_info.status = STATUS_OK]_vars

\* C17 witness: a call with a quality that names no tier is about to
\* return success, having encoded with the medium preset and CRF.
C17_Witness ==
    /\ pc = "finally"
    /\ call.quality = "bogus"
    /\ call.settings = Py(quality_settings["medium"])
    /\ call.return_code2 = Py(0)
    /\ call.result = Py(Result(TRUE, MSG_FIXED))

\* A call of fix_video that goes past its two early returns starts.
RepairStarts ==
    /\ pc = "idle"
    /\ n_calls' # n_calls
    /\ has_ffmpeg
    /\ fixed_info.status # STATUS_OK
\* The first video stream of the ffprobe output the call's probe parsed,
\* the empty dict when there was no probe or no video stream.
ProbedVideoStream ==
    IF call.data = PyNone THEN EmptyDict
    ELSE LET streams == Get(call.data[1], "streams", <<>>)
             v == FirstStream(streams, "video")
         IN IF v = 0 THEN EmptyDict ELSE streams[v]

\* C18: a repair that starts goes on to stage 1 whatever the probe of the
\* original did; and in stage 2 the width is 1920, the height 1080 and the
\* frame rate 30 when the probed output does not have the value.
C18_DefaultsWhenUndetermined ==
    /\ [][RepairStarts => pc' = "stage1"]_vars
    /\ [](pc = "stage2" =>
            /\ "width" \notin DOMAIN ProbedVideoStream => call.width = Py(1920)
            /\ "height" \notin DOMAIN ProbedVideoStream => call.height = Py(1080)
            /\ "r_frame_rate" \notin DOMAIN ProbedVideoStream => call.fps = Py(100 * 30))

\* C23: when a call with an explicit output path and delete_original set
\* returns success after repairing, the original file is no longer on disk.
C23_OriginalDeletedOnRequest ==
    [][(/\ FixVideoReturns
        /\ pc = "finally"
        /\ call.output_path # PyNone
        /\ call.delete_original
        /\ fix_result'.success) => disk'[VideoPath] = "absent"]_vars

\* A call that got as far as the re-verification returns in this step: both
\* of its stages exited with code 0 and its output file was not empty.
ReturnsAfterVerification ==
    /\ FixVideoReturns
    /\ pc = "finally"
    /\ call.new_issues # PyNone

\* C24 as stated: every call that got as far as the re-verification
\* returns success with the record fixed.
C24_Original ==
    [][ReturnsAfterVerification =>
          /\ fix_result'.success
          /\ fixed_info'.status = STATUS_FIXED]_vars

\* C24: whatever the analyzer reports on the new file, the step after the
\* re-verification is the replace step in replace mode and the update of
\* the record otherwise, and the call then returns success with the record
\* fixed unless the replace step itself could not delete, rename or move a
\* file.
C24_VerificationAdvisory ==
    [][/\ pc = "verify" =>
            pc' = IF call.output_path = PyNone THEN "delete_original" ELSE "update_info"
       /\ ReturnsAfterVerification =>
            \/ fix_result'.success /\ fixed_info'.status = STATUS_FIXED
            \/ fix_result'.message = MSG_REPLACE]_vars

C24_Witness ==
    /\ pc = "finally"
    /\ call.new_issues = Py(TRUE)
    /\ call.output_path = PyNone
    /\ call.result = Py(Result(TRUE, MSG_FIXED))
    /\ fixed_info.status = STATUS_FIXED
    /\ disk[VideoPath] = "fixed"

\* C27: in replace mode, when the delete of the original fails and the
\* rename to the backup path succeeds, the backup path holds what the
\* original path held and keeps it for the rest of the call; when the move
\* succeeds too the call returns success with the re-encoded file at the
\* original path, the temp output path neither on disk nor in _temp_files,
\* and the record fixed with fixed_path the original path.
DeleteFailed == call.backup_path # PyNone
C27_BackupThenReplace ==
    [][/\ (pc = "delete_original" /\ pc' = "move_temp" /\ call'.backup_path # PyNone) =>
            /\ disk'[BackupPath] = disk[VideoPath]
            /\ disk'[VideoPath] = "absent"
       /\ (DeleteFailed /\ pc # "idle") => disk'[BackupPath] = disk[BackupPath]
       /\ (/\ FixVideoReturns
           /\ pc = "finally"
           /\ call.output_path = PyNone
           /\ DeleteFailed
           /\ fix_result'.message # MSG_REPLACE) =>
            /\ fix_result'.success
            /\ disk'[VideoPath] = "fixed"
            /\ disk'[BackupPath] # "absent"
            /\ disk'[TempOutputPath(n_calls)] = "absent"
            /\ \A i \in 1..Len(temp_files') : temp_files'[i] # TempOutputPath(n_calls)
            /\ fixed_info'.status = STATUS_FIXED
            /\ fixed_info'.fixed_path = Py(VideoPath)]_vars

C27_Witness ==
    /\ pc = "finally"
    /\ call.output_path = PyNone
    /\ DeleteFailed
    /\ call.result = Py(Result(TRUE, MSG_FIXED))
    /\ disk[VideoPath] = "fixed"
    /\ disk[BackupPath] = "original"
    /\ fixed_info.fixed_path = Py(VideoPath)
    /\ \A i \in 1..Len(temp_files) : temp_files[i] # TempOutputPath(n_calls)

\* C28: the stage-2 process of a call is started, and has run, only when
\* the stage-1 process of the call has exited with code 0.
C28_Stage2AfterStage1 ==
    (pc = "stage2" \/ call.return_code2 # PyNone) =>
        /\ call.process1 = "exited"
        /\ call.return_code1 = Py(0)

C28_Witness ==
    /\ call.return_code2 = Py(0)
    /\ call.process1 = "exited"
    /\ call.return_code1 = Py(0)
    /\ disk[call.temp_output_path[1]] = "fixed"

\* The paths listed in a registry, the paths of the temporary files of
\* fix_video, and whether one of them is on a disk without being listed.
ListedIn(list) == {list[i] : i \in 1..Len(list)}
TempPaths ==
    {TempOutputPath(k) : k \in 1..MaxCalls} \cup {RawTempPath(k) : k \in 1..MaxCalls}
Unlisted(p, d, list) == d[p] # "absent" /\ \A i \in 1..Len(list) : list[i] # p
FixVideoStep == pc # "idle" \/ n_calls' # n_calls

\* C30: no step of fix_video that changes the disk or _temp_files leaves a
\* temporary file it created on disk without listing it, or lists the
\* original, the backup or the explicit output path; when a call returns
\* success neither its temp output path nor its final output path is
\* listed; and cleanup leaves _temp_files empty.
C30_TempRegistry ==
    [][IF FixVideoStep
       THEN /\ <<disk, temp_files>>' # <<disk, temp_files>> =>
                 /\ \A p \in TempPaths :
                       Unlisted(p, disk', temp_files') => Unlisted(p, disk, temp_files)
                 /\ \A i \in 1..Len(temp_files') :
                       temp_files'[i] \notin {VideoPath, BackupPath, SuffixedPath}
            /\ (FixVideoReturns /\ pc = "finally" /\ fix_result'.success) =>
                 \A i \in 1..Len(temp_files') :
                    temp_files'[i] \notin {call.temp_output_path[1], call.final_output_path[1]}
       ELSE temp_files' = <<>>]_vars

\* C30 witness: a replace-mode call has failed in its replace step, its
\* temp output is on disk and listed, and nothing unlisted is on disk.
C30_Witness ==
    /\ pc = "idle"
    /\ fix_result = Result(FALSE, MSG_REPLACE)
    /\ disk[TempOutputPath(n_calls)] = "fixed"
    /\ TempOutputPath(n_calls) \in ListedIn(temp_files)
    /\ \A p \in TempPaths : ~Unlisted(p, disk, temp_files)

(***************************************************************************)
(* Claims about VideoConverter (SpecConvert)                               *)
(***************************************************************************)
\* The duration of the file as the descriptor rule obtains it: the video
\* stream's when that is numeric, else the container's, None when neither
\* is numeric.
ObtainedDuration ==
    LET stream == NumericDuration(FirstOfType("video"))
    IN IF stream # PyNone THEN stream
       ELSE NumericDuration(Get(probe_data, "format", EmptyDict))

\* C22: create_preview and extract_frame reach the ffmpeg run only for a
\* file whose duration, taken from the video stream and else from the
\* container, is a number above 0, and they run ffmpeg with that duration;
\* stated for the files with at most one video stream.
C22_NoRunWithoutDuration ==
    (pc = "ffmpeg" /\ Cardinality(StreamsOfType("video")) <= 1) =>
        /\ ObtainedDuration # PyNone
        /\ ObtainedDuration[1][1] > 0
        /\ call.video_duration = ObtainedDuration[1]

(***************************************************************************)
(* Claims about VideoDetectorApp (Spec)                                    *)
(***************************************************************************)
AliveThreads == {t \in 1..MaxThreads : Alive(t)}

\* C3: under any interleaving of user events and worker threads, at most
\* one worker thread is alive.
C3_OneWorkerAtATime == Cardinality(AliveThreads) <= 1

\* The index of the record a repair thread is calling fix_video on.
RepairIndex(t) ==
    IF workers[t].kind = "fix" THEN workers[t].indices[1]
    ELSE workers[t].indices[workers[t].i + 1]

\* Thread t, a repair thread, is done with a record of the list in this
\* step: it has called fix_video and handled what came back.
RepairFinishes(t) ==
    /\ workers[t].kind \in {"fix", "batch"}
    /\ workers[t].pc = "call"
    /\ workers[t].info_live
    /\ workers'[t].pc # "call"

\* C4: when a repair thread, the only thread alive, is done with a record,
\* the record is fixed if the repair succeeded and error if it did not; it
\* is not left in processing.
C4_FailedRepairEndsInError ==
    [][\A t \in 1..MaxThreads :
          (RepairFinishes(t) /\ AliveThreads = {t}) =>
              LET status == At(video_info_list', RepairIndex(t)).status
              IN status # STATUS_FIXED => status = STATUS_ERROR]_vars

\* Thread t, a detection sweep or a batch repair on a list that was not
\* cleared under it, leaves its loop in this step.
LeavesLoop(t) ==
    /\ workers[t].kind \in {"detect", "batch"}
    /\ workers[t].list_live
    /\ workers[t].pc # "finally"
    /\ workers'[t].pc = "finally"

\* The number of records thread t has to go through.
BatchSize(t) ==
    IF workers[t].kind = "detect" THEN Len(SweepPaths(workers[t]))
    ELSE Len(workers[t].indices)

\* The number of records thread t has called detect_video or fix_video
\* for, or skipped, when it takes a step at its pc.
GoneThrough(t) == IF workers[t].pc = "call" THEN workers[t].i + 1 ELSE workers[t].i

\* C5: a sweep or a batch, the only thread alive, leaves its loop only
\* after it has gone through every record of the batch, whatever happened
\* to the files before.
C5_BatchRunsToTheEnd ==
    [][\A t \in 1..MaxThreads :
          (LeavesLoop(t) /\ AliveThreads = {t}) => GoneThrough(t) >= BatchSize(t)]_vars

\* C6: when a detection sweep, the only thread alive, leaves its loop,
\* every record of the list is ok or error.
C6_SweepLeavesTerminalStatus ==
    [][\A t \in 1..MaxThreads :
          (LeavesLoop(t) /\ workers[t].kind = "detect" /\ AliveThreads = {t}) =>
              \A k \in 1..Len(video_info_list') :
                  video_info_list'[k].status \in {STATUS_OK, STATUS_ERROR}]_vars

\* The status changes the lifecycle of a record allows.
LifecycleEdges ==
    { <<STATUS_UNKNOWN, STATUS_PROCESSING>>,
      <<STATUS_PROCESSING, STATUS_OK>>,
      <<STATUS_PROCESSING, STATUS_ERROR>>,
      <<STATUS_ERROR, STATUS_PROCESSING>>,
      <<STATUS_PROCESSING, STATUS_FIXED>> }

\* The record at position k of the list is still there after the step.
StaysInList(k) ==
    /\ k <= Len(video_info_list')
    /\ video_info_list'[k].filepath = video_info_list[k].filepath

\* C14: while at most one worker thread is alive, every status change of a
\* record of the list follows a lifecycle edge; a record that is ok or
\* fixed does not change status.
C14_StatusFollowsLifecycle ==
    [][Cardinality(AliveThreads) <= 1 =>
          \A k \in 1..Len(video_info_list) :
              (StaysInList(k) /\ video_info_list'[k].status # video_info_list[k].status)
                  => <<video_info_list[k].status, video_info_list'[k].status>>
                         \in LifecycleEdges]_vars

\* C15: a record of the list has an error message only while its status
\* is error; with any other status its error_message is None.
C15_ErrorMessageOnlyInError ==
    \A k \in 1..Len(video_info_list) :
        video_info_list[k].status # STATUS_ERROR
            => video_info_list[k].error_message = PyNone

\* The messages fix_video returns with success = False.
FailureMessages ==
    {MSG_NO_FFMPEG, MSG_STAGE1, MSG_STAGE2, MSG_EMPTY_OUTPUT, MSG_REPLACE,
     MSG_CONVERT_ERROR}

\* C16: when a repair thread, the only thread alive, is done with a record
\* whose repair failed (the record is back in error), the record's
\* error_message holds a failure message of fix_video.
C16_FailureMessageOnRecord ==
    [][\A t \in 1..MaxThreads :
          (/\ RepairFinishes(t) /\ AliveThreads = {t}
           /\ At(video_info_list', RepairIndex(t)).status = STATUS_ERROR)
              => At(video_info_list', RepairIndex(t)).error_message
                     \in {Py(m) : m \in FailureMessages}]_vars

\* C29: a row is created for the record appended with it and shows that
\* record's file name; selecting a row that still stands at its record's
\* position makes that record the selected one.
C29_RowSelectsItsRecord ==
    \A row \in 1..Len(tree) :
        (row <= Len(video_info_list) /\ tree[row] = video_info_list[row].filename)
            => RecordOfRow(video_info_list, tree[row]) = Py(row - 1)

====
